---------------------------- MODULE Spec2Model ----------------------------
(***************************************************************************)
(* A model of the luggage-tag generator (3d-models/generate_tag.py): the   *)
(* parameter merge done by main(), the build_and_export pipeline and the   *)
(* deterministic STL serialisation.                                        *)
(*                                                                         *)
(* Lengths are integers in hundredths of a millimetre (3.0 mm = 300).      *)
(* Coordinates whose source value is a half (height / 2, body_t / 2) are   *)
(* kept doubled, in names ending in 2, so that no division is needed.      *)
(* Error texts are sequences of one-character strings, so that "the text   *)
(* contains the phrase" is a substring test on the real message.           *)
(***************************************************************************)
EXTENDS Integers, Sequences, FiniteSets, TLC

VARIABLES
    p,              \* the Params instance
    args,           \* keyword arguments of build_and_export
    env,            \* optional imports: segno, cairosvg
    pc,             \* position in build_and_export
    calls,          \* operations invoked so far, in order
    body,           \* bounding box of the solid returned by build_body
    base_with_text, \* bounding box of base_with_text
    islands,        \* bounding box of the feature solid
    outdir,         \* out.mkdir() has run
    files,          \* names of the files present in out
    manifest,       \* keys of the in-memory manifest["files"]
    manifest_json,  \* successive contents written to manifest.json, each
                    \* [files |-> keys of "files", meta |-> other entries]
    checksums,      \* lines of checksums.sha256 (file names, in order)
    ci,             \* index into emit_coupons
    stderr,         \* text of the uncaught exception, <<>> if none
    exitcode,       \* process exit status, -1 while running
    mainpc,         \* position in main()
    yaml,           \* contents of the --params file (key -> value)
    cli,            \* argparse namespace (option -> value or None)
    mesh,           \* faces handed back by the tessellator, per build
    stl,            \* serialised triangles written, per build
    qrmeta,         \* the dict build_qr_islands returns
    prisms,         \* <<r, c>> of every prism build_qr_islands emitted
    meta,           \* the manifest's entries beside "files"
    revpc,          \* position in create_truly_reversible_tag
    layout_config,  \* contents of layout_config.json, <<>> without the file
    precise_svg,    \* layers of luggage_tag_precise.svg, <<>> without the file
    qr_url,         \* the payload of the reversible tag's code
    features_front, \* the front (bottom) stack: a set of <<x, y, z2>>
    features_back,  \* the back (top) stack
    features,       \* the solid written to reversible_tag_features.stl
    rev_ops,        \* mirror and union operations applied, in order
    rev_files,      \* files written by the reversible generator
    rev_manifest,   \* contents of reversible_manifest.json, <<>> if none
    apppc,          \* position of the web service: a request, then a response
    registry,       \* rows of registry.jsonl, in file order
    server,         \* RECOVERY_SECRET and ALLOW_LEGACY of the web service
    request,        \* query of the request to /r: u and t
    response,       \* what resolve() answers
    laypc,          \* position in design_optimal_layout, or "ready" for a
                    \* TagLayout in the hands of a caller
    layout,         \* the TagLayout: content area, hole, elements
    rets,           \* what each add_element call returned, in order
    validated,      \* what each validate_layout call returned, in order
    tglpc,          \* "ready" while tools/missing.py is in use, else "off"
    jsonl0,         \* lines of the registry file before the first toggle
    jsonl,          \* lines of the registry file now
    toggled         \* the toggle calls made: uid and value, in order

buildVars == <<args, env, pc, calls, body, base_with_text, islands, outdir,
               files, manifest, manifest_json, checksums, ci, stderr, exitcode>>
mainVars == <<mainpc, yaml, cli>>
meshVars == <<mesh, stl>>
qrVars == <<qrmeta, prisms, meta>>
revVars == <<revpc, layout_config, precise_svg, qr_url, features_front,
             features_back, features, rev_ops, rev_files, rev_manifest>>
appVars == <<apppc, registry, server, request, response>>
layVars == <<laypc, layout, rets, validated>>
tglVars == <<tglpc, jsonl0, jsonl, toggled>>
restVars == <<revVars, appVars, layVars, tglVars>>
genVars == <<p, buildVars, mainVars, meshVars, qrVars>>
notRev == <<genVars, appVars, layVars, tglVars>>
notApp == <<genVars, revVars, layVars, tglVars>>
notLay == <<genVars, revVars, appVars, tglVars>>
notTgl == <<genVars, revVars, appVars, layVars>>
vars == <<p, buildVars, mainVars, meshVars, qrVars, restVars>>

---------------------------------------------------------------------------
(* Error texts *)

\* 'qr_w and qr_h must be positive'
MsgQrPositive ==
    <<"q","r","_","w"," ","a","n","d"," ","q","r","_","h"," ","m","u","s",
      "t"," ","b","e"," ","p","o","s","i","t","i","v","e">>

\* 'qr_border must be >= 1.0 mm'
MsgQrBorder ==
    <<"q","r","_","b","o","r","d","e","r"," ","m","u","s","t"," ","b","e",
      " ",">","="," ","1",".","0"," ","m","m">>

\* 'body_t must be >= 2.5 mm'
MsgBodyT ==
    <<"b","o","d","y","_","t"," ","m","u","s","t"," ","b","e"," ",">","=",
      " ","2",".","5"," ","m","m">>

\* 'min_wall must be >= 1.5 mm'
MsgMinWall ==
    <<"m","i","n","_","w","a","l","l"," ","m","u","s","t"," ","b","e"," ",
      ">","="," ","1",".","5"," ","m","m">>

\* 'Invalid pockets: nfc_depth + qr_pocket_depth must be <= body_t - 0.6'
MsgPockets ==
    <<"I","n","v","a","l","i","d"," ","p","o","c","k","e","t","s",":"," ",
      "n","f","c","_","d","e","p","t","h"," ","+"," ","q","r","_","p","o",
      "c","k","e","t","_","d","e","p","t","h"," ","m","u","s","t"," ","b",
      "e"," ","<","="," ","b","o","d","y","_","t"," ","-"," ","0",".","6">>

\* 'Invalid pockets: nfc_depth + qr_pocket_depth must be <= body_t - 0.6'
MsgBodyPockets ==
    <<"I","n","v","a","l","i","d"," ","p","o","c","k","e","t","s",":"," ",
      "n","f","c","_","d","e","p","t","h"," ","+"," ","q","r","_","p","o",
      "c","k","e","t","_","d","e","p","t","h"," ","m","u","s","t"," ","b",
      "e"," ","<","="," ","b","o","d","y","_","t"," ","-"," ","0",".","6">>

\* 'Back engraving violates minimum wall thickness'
MsgBackEngrave ==
    <<"B","a","c","k"," ","e","n","g","r","a","v","i","n","g"," ","v","i",
      "o","l","a","t","e","s"," ","m","i","n","i","m","u","m"," ","w","a",
      "l","l"," ","t","h","i","c","k","n","e","s","s">>

\* "'Params' object has no attribute 'back_text_height'"
MsgNoBackTextHeight ==
    <<"'","P","a","r","a","m","s","'"," ","o","b","j","e","c","t"," ","h",
      "a","s"," ","n","o"," ","a","t","t","r","i","b","u","t","e"," ","'",
      "b","a","c","k","_","t","e","x","t","_","h","e","i","g","h","t","'">>

\* 'pocket depths'
PhrasePocketDepths ==
    <<"p","o","c","k","e","t"," ","d","e","p","t","h","s">>

\* f"Mesh {path} is not watertight": the path is kept as one element
MsgNotWatertight(name) ==
    <<"M","e","s","h"," ">> \o <<name>> \o
    <<" ","i","s"," ","n","o","t"," ","w","a","t","e","r","t","i","g","h","t">>

\* The last line of the traceback Python prints for an uncaught exception
Traceback(type, msg) ==
    IF msg = <<>> THEN <<type>> ELSE <<type, ":", " ">> \o msg

\* needle in haystack, as Python's `in` on bytes
Contains(haystack, needle) ==
    \E i \in 0..(Len(haystack) - Len(needle)) :
        \A j \in 1..Len(needle) : haystack[i + j] = needle[j]

---------------------------------------------------------------------------
(* Params *)

None == -1

Params ==
    [qr_w |-> 5000, qr_h |-> 3000, qr_border |-> 300, body_t |-> 300,
     min_wall |-> 150, corner_r |-> 300, nfc_depth |-> 100,
     fit_clearance |-> 25, strap_hole_d |-> 500, strap_slot_w |-> 0,
     strap_slot_l |-> 0, qr_pocket_depth |-> 20, island_h |-> 50,
     front_prompt_text |-> "Scan me to find my owner",
     front_text_style |-> "emboss", front_text_height |-> 50,
     front_text_depth |-> 30, back_name |-> "",
     back_text_style |-> "engrave"]

---------------------------------------------------------------------------
(* _validate_inputs *)

PocketsTooDeep_ge(q) == q.nfc_depth + q.qr_pocket_depth >= q.body_t - 60

\* generate_tag.py:418
PocketsTooDeep(q) == q.nfc_depth + q.qr_pocket_depth > q.body_t - 60

BorderTooSmall_never(q) == FALSE

\* generate_tag.py:412
BorderTooSmall(q) == q.qr_border < 100

\* generate_tag.py:414
BodyTooThin(q) == q.body_t < 250

\* generate_tag.py:416
WallTooThin(q) == q.min_wall < 150

\* The message of the ValueError raised, <<>> when the call returns
_validate_inputs(q) ==
    IF q.qr_w <= 0 \/ q.qr_h <= 0 THEN MsgQrPositive
    ELSE IF BorderTooSmall(q) THEN MsgQrBorder
    ELSE IF BodyTooThin(q) THEN MsgBodyT
    ELSE IF WallTooThin(q) THEN MsgMinWall
    ELSE IF PocketsTooDeep(q) THEN MsgPockets
    ELSE <<>>

---------------------------------------------------------------------------
(* Solids, kept as axis-aligned bounding boxes in doubled coordinates *)

NoSolid == [xmin2 |-> 0, xmax2 |-> 0, ymin2 |-> 0, ymax2 |-> 0,
            zmin2 |-> 0, zmax2 |-> 0]

Min(a, b) == IF a < b THEN a ELSE b
Max(a, b) == IF a > b THEN a ELSE b

\* body.union(pad): the box around both
Union(a, b) ==
    [xmin2 |-> Min(a.xmin2, b.xmin2), xmax2 |-> Max(a.xmax2, b.xmax2),
     ymin2 |-> Min(a.ymin2, b.ymin2), ymax2 |-> Max(a.ymax2, b.ymax2),
     zmin2 |-> Min(a.zmin2, b.zmin2), zmax2 |-> Max(a.zmax2, b.zmax2)]

\* build_body's own pocket check, generate_tag.py:100
BodyPocketsTooDeep(q) == q.nfc_depth + q.qr_pocket_depth > q.body_t - 60

PlateWidth(q) == q.qr_w + 2 * q.qr_border
PlateHeight(q) == q.qr_h + 2 * q.qr_border

\* Python's (p.strap_slot_l or p.strap_hole_d)
SlotLOrHoleD(q) == IF q.strap_slot_l # 0 THEN q.strap_slot_l ELSE q.strap_hole_d

\* 2 * strap_center_y
StrapCenterY2(q) == PlateHeight(q) - 2 * q.min_wall - SlotLOrHoleD(q)

\* Python's truth of (p.strap_slot_w and p.strap_slot_l)
UsesSlot(q) == q.strap_slot_w # 0 /\ q.strap_slot_l # 0

\* The reinforcement pad: slot2D(pad_len, pad_w), whose length lies along X
\* (angle 0), or circle(pad_d / 2), centred on (0, strap_center_y)
Pad(q) ==
    LET cy2 == StrapCenterY2(q)
        lenX == IF UsesSlot(q) THEN q.strap_slot_l + 2 * q.min_wall
                ELSE q.strap_hole_d + 2 * q.min_wall
        lenY == IF UsesSlot(q) THEN q.strap_slot_w + 2 * q.min_wall
                ELSE q.strap_hole_d + 2 * q.min_wall
    IN  [xmin2 |-> -lenX, xmax2 |-> lenX,
         ymin2 |-> cy2 - lenY, ymax2 |-> cy2 + lenY,
         zmin2 |-> -q.body_t, zmax2 |-> q.body_t]

\* The anchor cavity cut through the plate: slot2D(strap_slot_l,
\* strap_slot_w), length along X, or circle(strap_hole_d / 2), centred on
\* (0, strap_center_y)
Anchor(q) ==
    LET cy2 == StrapCenterY2(q)
        lenX == IF UsesSlot(q) THEN q.strap_slot_l ELSE q.strap_hole_d
        lenY == IF UsesSlot(q) THEN q.strap_slot_w ELSE q.strap_hole_d
    IN  [xmin2 |-> -lenX, xmax2 |-> lenX,
         ymin2 |-> cy2 - lenY, ymax2 |-> cy2 + lenY]

\* The front pocket: rect(pocket_w, pocket_h) on the top face, centred,
\* cut qr_pocket_depth deep
QrPocket(q) ==
    [w |-> q.qr_w + q.fit_clearance, h |-> q.qr_h + q.fit_clearance,
     depth |-> q.qr_pocket_depth]

Plate(q) ==
    [xmin2 |-> -PlateWidth(q), xmax2 |-> PlateWidth(q),
     ymin2 |-> -PlateHeight(q), ymax2 |-> PlateHeight(q),
     zmin2 |-> -q.body_t, zmax2 |-> q.body_t]

\* The solid build_body returns: fillets and cuts leave the box as it is
build_body(q) == Union(Plate(q), Pad(q))

\* build_islands: the ring, outer_w x outer_h, on top of the body
build_islands(q) ==
    [xmin2 |-> -PlateWidth(q), xmax2 |-> PlateWidth(q),
     ymin2 |-> -PlateHeight(q), ymax2 |-> PlateHeight(q),
     zmin2 |-> q.body_t, zmax2 |-> q.body_t + 2 * q.island_h]

\* _text_solid_front returns an empty workplane without a prompt text, and
\* front_text.val().isNull() is read as the test for that empty workplane
FrontTextPresent(q) == q.front_prompt_text # ""

\* _text_solids_back: lines = the non-empty ones of name, phone, address
BackTextPresent(q) == q.back_name # ""

\* the extrusion of the back text when it is engraved, generate_tag.py:252
BackEngraveDepth(q) == q.front_text_depth

BackEngraveTooDeep_never(q) == q.body_t - q.front_text_depth < 0

\* generate_tag.py:498
BackEngraveTooDeep(q) == q.body_t - q.front_text_depth < q.min_wall

\* base_with_text after generate_tag.py:489-493: an embossed prompt rises
\* front_text_height above the top face; the glyphs are taken to lie inside
\* the plate outline, their width being the font's business
WithFrontText(q, b) ==
    IF q.front_text_style = "emboss" /\ FrontTextPresent(q)
    THEN [b EXCEPT !.zmax2 = b.zmax2 + 2 * q.front_text_height]
    ELSE b

\* _two_tone_asserts, with 1e-3 mm below the unit: the differences must be 0
_two_tone_asserts(q, b, f) ==
    /\ b.xmin2 = f.xmin2 /\ b.xmax2 = f.xmax2
    /\ b.ymin2 = f.ymin2 /\ b.ymax2 = f.ymax2
    /\ b.zmax2 = q.body_t
    /\ f.zmin2 = q.body_t
    /\ b.zmax2 <= f.zmin2

---------------------------------------------------------------------------
(* build_qr_islands: the QR feature set *)

\* Modules on a side of the symbols the encoder is given here (a real symbol
\* has 21 or more)
QrSide == 3

\* The payloads encoded
QrTexts == {"HELLO-WORLD-1234", "DEMO"}

\* segno.make(qr_text, error='m'): the symbol, rows top to bottom, 1 = dark.
\* Each payload has its own pattern; both have a dark top-left corner and a
\* light cell, and the first is not symmetric under a flip of the rows.
segno_make(text) ==
    [i \in 1..QrSide |-> [j \in 1..QrSide |->
        IF text = "DEMO"
        THEN (IF (i + j) % 2 = 0 THEN 1 ELSE 0)
        ELSE (IF i = 1 \/ j = i + 1 THEN 1 ELSE 0)]]

\* generate_tag.py:274
qz == 4

\* qr.symbol_size(quiet_zone=...)[0]
symbol_size(m, quiet_zone) == Len(m) + 2 * quiet_zone

\* qr.matrix_iter(scale=1, border=...): the rows with a light border around
matrix_iter(m, border) ==
    [i \in 1..(Len(m) + 2 * border) |-> [j \in 1..(Len(m) + 2 * border) |->
        IF /\ i > border /\ i <= border + Len(m)
           /\ j > border /\ j <= border + Len(m)
        THEN m[i - border][j - border] ELSE 0]]

\* hashlib.sha256(qr_text.encode('utf-8')).hexdigest()
sha256_hexdigest(text) ==
    IF text = "HELLO-WORLD-1234"
    THEN "6952150fadba91872f4549e78b37bf051cbce6fc93b88d34832f41337dc4483a"
    ELSE IF text = "DEMO"
    THEN "4ff006ca6b88e752f08cb7881714505ceb3d2079eea432acfda8e158e0d1d82e"
    ELSE "e3b0c44298fc1c149afbf4c8996fb92427ae41e4649b934ca495991b7852b855"

\* min(pocket_w / modules, pocket_h / modules), to the hundredth of a mm
module_size(q, modules) ==
    Min((q.qr_w + q.fit_clearance) \div modules,
        (q.qr_h + q.fit_clearance) \div modules)

color_switch_layer_floor(island_h, layer_height) ==
    Max(1, island_h \div layer_height)

\* round(): to the nearest integer, a tie to the even one
round(a, b) ==
    LET q == a \div b
        r == a % b
    IN  IF 2 * r < b THEN q
        ELSE IF 2 * r > b THEN q + 1
        ELSE IF q % 2 = 0 THEN q ELSE q + 1

\* color_switch_layer_index: max(1, round(island_h / layer_height))
color_switch_layer_index(island_h, layer_height) ==
    Max(1, round(island_h, layer_height))

IsDark_always(bit) == TRUE

\* `if bit:` at generate_tag.py:288
IsDark(bit) == bit = 1

\* The prism of the cell in row r, column c (from 0): a module_size square
\* centred on (x0 + (c + 0.5) * module_size, y0 + (r + 0.5) * module_size),
\* extruded island_h from the top face
Prism(q, modules, r, c) ==
    LET ms == module_size(q, modules)
    IN  [xmin2 |-> -modules * ms + 2 * c * ms,
         xmax2 |-> -modules * ms + 2 * (c + 1) * ms,
         ymin2 |-> -modules * ms + 2 * r * ms,
         ymax2 |-> -modules * ms + 2 * (r + 1) * ms,
         zmin2 |-> q.body_t, zmax2 |-> q.body_t + 2 * q.island_h]

\* The iterations <<r, c>> (from 0) of the double loop of
\* generate_tag.py:286-294 that take the `if bit:` branch, in loop order
DarkIterations(it) ==
    SelectSeq([k \in 1..(Len(it) * Len(it)) |->
                  <<(k - 1) \div Len(it), (k - 1) % Len(it)>>],
              LAMBDA rc : IsDark(it[rc[1] + 1][rc[2] + 1]))

\* wp after the unions of the prisms of the iterations ds: the box around
\* them all, an empty workplane when there is none
UnionOfPrisms(q, modules, ds) ==
    IF ds = <<>> THEN NoSolid
    ELSE LET boxes == {Prism(q, modules, ds[k][1], ds[k][2]) : k \in 1..Len(ds)}
             lo(S) == CHOOSE v \in S : \A w \in S : v <= w
             hi(S) == CHOOSE v \in S : \A w \in S : v >= w
         IN  [xmin2 |-> lo({b.xmin2 : b \in boxes}),
              xmax2 |-> hi({b.xmax2 : b \in boxes}),
              ymin2 |-> lo({b.ymin2 : b \in boxes}),
              ymax2 |-> hi({b.ymax2 : b \in boxes}),
              zmin2 |-> lo({b.zmin2 : b \in boxes}),
              zmax2 |-> hi({b.zmax2 : b \in boxes})]

\* build_qr_islands with a payload and segno present: <<prisms, wp, meta>>;
\* dark_count is incremented once for every prism
build_qr_islands(q, qr_text) ==
    LET qr == segno_make(qr_text)
        msize == symbol_size(qr, 4)
        ms == module_size(q, msize)
        ds == DarkIterations(matrix_iter(qr, qz))
    IN  <<ds, UnionOfPrisms(q, msize, ds),
          [mode |-> "qr", qr_payload_hash |-> sha256_hexdigest(qr_text),
           module_size_mm |-> ms, quiet_zone_mm |-> qz * ms,
           dark_modules |-> Len(ds), island_h |-> q.island_h]>>

\* 'QR features requested but segno is not available. Add segno to requirements.'
MsgNoSegno ==
    <<"QR features requested but segno is not available. Add segno to requirements.">>

---------------------------------------------------------------------------
(* Inputs *)

QrWVals == {0, 5000}
QrBorderVals == {50, 300}
BodyTVals == {200, 300}
MinWallVals == {100, 150}
NfcDepthVals == {100, 220, 280}
QrPocketDepthVals == {20, 50}

\* <<strap_hole_d, strap_slot_w, strap_slot_l>>
StrapVals == {<<500, 0, 0>>, <<0, 500, 2000>>, <<500, 500, 6000>>, <<6000, 0, 0>>}

\* <<front_prompt_text, front_text_style, front_text_depth, back_name, back_text_style>>
TextVals ==
    {<<"Scan me to find my owner", "emboss", 30, "", "engrave">>,
     <<"", "emboss", 30, "", "engrave">>,
     <<"", "engrave", 170, "", "engrave">>,
     <<"Scan me to find my owner", "engrave", 170, "", "engrave">>,
     <<"", "emboss", 30, "X", "engrave">>,
     <<"Scan me to find my owner", "emboss", 170, "X", "engrave">>,
     <<"", "emboss", 30, "X", "emboss">>}

ParamSets ==
    {[Params EXCEPT !.qr_w = w, !.qr_border = b, !.body_t = t, !.min_wall = m,
                    !.nfc_depth = n, !.qr_pocket_depth = k,
                    !.strap_hole_d = s[1], !.strap_slot_w = s[2],
                    !.strap_slot_l = s[3],
                    !.front_prompt_text = x[1], !.front_text_style = x[2],
                    !.front_text_depth = x[3], !.back_name = x[4],
                    !.back_text_style = x[5]] :
        w \in QrWVals, b \in QrBorderVals, t \in BodyTVals, m \in MinWallVals,
        n \in NfcDepthVals, k \in QrPocketDepthVals, s \in StrapVals,
        x \in TextVals}

\* <<previews, text_features, emit_coupons, deterministic, qr_text>>
OutputVals ==
    {<<"none", FALSE, <<>>, TRUE, "">>,
     <<"svg", TRUE, <<"nfc", "strap">>, FALSE, "">>,
     <<"png", FALSE, <<"strap">>, TRUE, "DEMO">>,
     <<"none", FALSE, <<>>, TRUE, "HELLO-WORLD-1234">>}

ArgSets ==
    {[variant |-> v, strict |-> s, previews |-> o[1], text_features |-> o[2],
      emit_coupons |-> o[3], deterministic |-> o[4], qr_text |-> o[5],
      layer_height |-> 0] :
        v \in {"all", "base", "flat", "islands"}, s \in BOOLEAN, o \in OutputVals}

\* tests/test_cli.py:30-46: what main() hands to build_and_export for
\* --variant v, --strap_hole_d 5 or --slot 5x20, --qr_border b, --fit_clearance f
MatrixParams ==
    {[Params EXCEPT !.strap_hole_d = s[1], !.strap_slot_w = s[2],
                    !.strap_slot_l = s[3], !.qr_border = b,
                    !.fit_clearance = f] :
        s \in {<<500, 0, 0>>, <<0, 500, 2000>>}, b \in {200, 300, 400},
        f \in {20, 30, 40}}

\* The options the matrix leaves out keep parse_args' defaults; strict is
\* true when the environment has CI set
MatrixArgs ==
    {[variant |-> v, strict |-> s, previews |-> "svg", text_features |-> FALSE,
      emit_coupons |-> <<>>, deterministic |-> FALSE, qr_text |-> "",
      layer_height |-> 0] :
        v \in {"base", "flat", "islands"}, s \in BOOLEAN}

\* tests/test_integrity.py:86-91: the feature heights and layer heights of
\* the printers' profiles, given as --island_h and --layer_height
LayerParams == {[Params EXCEPT !.island_h = h] : h \in {40, 60}}

LayerArgs ==
    {[variant |-> "base", strict |-> FALSE, previews |-> "svg",
      text_features |-> FALSE, emit_coupons |-> <<>>, deterministic |-> FALSE,
      qr_text |-> "", layer_height |-> l] : l \in {16, 20, 28}}

EnvSets == {[segno |-> TRUE, cairosvg |-> TRUE], [segno |-> FALSE, cairosvg |-> FALSE]}

---------------------------------------------------------------------------
(* build_and_export *)

OrderLateText ==
    <<"validate", "build_body", "build_qr_islands", "mkdir", "text",
      "export_base", "export_flat", "export_islands", "apply_text",
      "text_features", "coupons", "write_manifest", "sticker", "done">>

\* The statements of build_and_export, in the order the function runs them
Order ==
    <<"validate", "build_body", "build_qr_islands", "mkdir", "text",
      "apply_text", "export_base", "export_flat", "export_islands",
      "text_features", "coupons", "write_manifest", "sticker", "done">>

After(s) == Order[(CHOOSE i \in 1..Len(Order) : Order[i] = s) + 1]

\* An exception nothing catches: main() dies with the traceback, status 1
Raise(type, msg) ==
    /\ pc' = "failed"
    /\ stderr' = Traceback(type, msg)
    /\ exitcode' = 1

\* sorted(manifest["files"].items()): all names, in ascending order
NamesInOrder ==
    <<"back_text_features.stl", "coupon_nfc.stl", "coupon_strap_hole.stl",
      "coupon_strap_slot.stl", "front_text_features.stl", "preview_back.png",
      "preview_back.svg", "preview_front.png", "preview_front.svg",
      "qr_sticker_30x50.png", "qr_sticker_30x50.svg", "tag_alt_flat_front.stl",
      "tag_alt_qr_islands_base.stl", "tag_alt_qr_islands_features.stl",
      "tag_base.stl">>

Sorted(S) == SelectSeq(NamesInOrder, LAMBDA n : n \in S)

\* hashlib.sha256 of the file's bytes: equal digests are equal bytes
_sha256(bytes) == bytes

\* path.read_bytes(): every listed file is written once in a run, so its
\* bytes are those written under its name
read_bytes(name) == <<"bytes of", name>>

\* The lines "<sha256>  <name>" written from the sorted manifest items
ChecksumLines(S) ==
    [i \in 1..Len(Sorted(S)) |->
        [sha256 |-> _sha256(read_bytes(Sorted(S)[i])), name |-> Sorted(S)[i]]]

BuildInit ==
    /\ args \in ArgSets \cup MatrixArgs \cup LayerArgs
    /\ env \in EnvSets
    /\ pc = "validate"
    /\ calls = <<>>
    /\ body = NoSolid
    /\ base_with_text = NoSolid
    /\ islands = NoSolid
    /\ outdir = FALSE
    /\ files = {}
    /\ manifest = {}
    /\ manifest_json = <<>>
    /\ checksums = <<>>
    /\ ci = 1
    /\ stderr = <<>>
    /\ exitcode = -1

\* The defaults of build_and_export's keyword arguments, variant "all"
IdleArgs ==
    [variant |-> "all", strict |-> FALSE, previews |-> "svg",
     text_features |-> FALSE, emit_coupons |-> <<>>, deterministic |-> FALSE,
     qr_text |-> "", layer_height |-> 0]

BuildRestIdle ==
    /\ env = [segno |-> TRUE, cairosvg |-> TRUE]
    /\ pc = "off"
    /\ calls = <<>>
    /\ body = NoSolid
    /\ base_with_text = NoSolid
    /\ islands = NoSolid
    /\ outdir = FALSE
    /\ files = {}
    /\ manifest = {}
    /\ manifest_json = <<>>
    /\ checksums = <<>>
    /\ ci = 1
    /\ stderr = <<>>
    /\ exitcode = -1

BuildIdle == args = IdleArgs /\ BuildRestIdle

MainIdle == mainpc = "off" /\ yaml = <<>> /\ cli = <<>>

MeshIdle == mesh = <<>> /\ stl = <<>>

QrIdle == qrmeta = <<>> /\ prisms = <<>> /\ meta = <<>>

RevIdle ==
    /\ revpc = "off"
    /\ layout_config = <<>>
    /\ precise_svg = <<>>
    /\ qr_url = ""
    /\ features_front = {}
    /\ features_back = {}
    /\ features = {}
    /\ rev_ops = <<>>
    /\ rev_files = {}
    /\ rev_manifest = <<>>

AppIdle ==
    /\ apppc = "off"
    /\ registry = <<>>
    /\ server = <<>>
    /\ request = <<>>
    /\ response = <<>>

LayIdle ==
    /\ laypc = "off"
    /\ layout = <<>>
    /\ rets = <<>>
    /\ validated = <<>>

TglIdle ==
    /\ tglpc = "off"
    /\ jsonl0 = <<>>
    /\ jsonl = <<>>
    /\ toggled = <<>>

\* The other programs of the repository have not run
RestIdle == RevIdle /\ AppIdle /\ LayIdle /\ TglIdle

Init ==
    /\ p \in ParamSets \cup MatrixParams \cup LayerParams
    /\ BuildInit
    /\ \/ p \in ParamSets /\ args \in ArgSets
       \/ p \in MatrixParams /\ args \in MatrixArgs
       \/ p \in LayerParams /\ args \in LayerArgs
    /\ MainIdle
    /\ MeshIdle
    /\ QrIdle
    /\ RestIdle

\* generate_tag.py:468
Validate ==
    /\ pc = "validate"
    /\ calls' = Append(calls, "_validate_inputs")
    /\ IF _validate_inputs(p) # <<>>
       THEN Raise("ValueError", _validate_inputs(p))
       ELSE pc' = After("validate") /\ UNCHANGED <<stderr, exitcode>>
    /\ UNCHANGED <<p, args, env, body, base_with_text, islands, outdir, files,
                   manifest, manifest_json, checksums, ci, mainVars, meshVars, qrVars, restVars>>

\* generate_tag.py:472-473
BuildBody ==
    /\ pc = "build_body"
    /\ calls' = Append(calls, "build_body")
    /\ IF BodyPocketsTooDeep(p)
       THEN Raise("ValueError", MsgBodyPockets) /\ UNCHANGED body
       ELSE /\ body' = build_body(p)
            /\ pc' = After("build_body")
            /\ UNCHANGED <<stderr, exitcode>>
    /\ UNCHANGED <<p, args, env, base_with_text, islands, outdir, files,
                   manifest, manifest_json, checksums, ci, mainVars, meshVars, qrVars, restVars>>

\* generate_tag.py:474. Without a payload build_qr_islands returns the ring of
\* build_islands; with one it needs segno and returns the dark modules
BuildQrIslands ==
    /\ pc = "build_qr_islands"
    /\ calls' = Append(calls, "build_qr_islands")
    /\ IF args.qr_text = ""
       THEN /\ islands' = build_islands(p)
            /\ qrmeta' = [mode |-> "ring"]
            /\ pc' = After("build_qr_islands")
            /\ UNCHANGED <<prisms, stderr, exitcode>>
       ELSE IF ~env.segno
       THEN /\ Raise("RuntimeError", MsgNoSegno)
            /\ UNCHANGED <<islands, qrmeta, prisms>>
       ELSE /\ prisms' = build_qr_islands(p, args.qr_text)[1]
            /\ islands' = build_qr_islands(p, args.qr_text)[2]
            /\ qrmeta' = build_qr_islands(p, args.qr_text)[3]
            /\ pc' = After("build_qr_islands")
            /\ UNCHANGED <<stderr, exitcode>>
    /\ UNCHANGED <<p, args, env, body, base_with_text, outdir, files, manifest,
                   manifest_json, checksums, ci, meta, mainVars, meshVars, restVars>>

\* generate_tag.py:475-482: the manifest starts with the parameters and no
\* files, and manifest.update(qrmeta) adds the entries of qrmeta
Mkdir ==
    /\ pc = "mkdir"
    /\ outdir' = TRUE
    /\ manifest' = {}
    /\ meta' = IF args.layer_height # 0
               THEN qrmeta @@ [parameters |-> p, deterministic |-> args.deterministic,
                               color_switch_layer |->
                                   color_switch_layer_index(p.island_h,
                                                            args.layer_height)]
               ELSE qrmeta @@ [parameters |-> p, deterministic |-> args.deterministic]
    /\ pc' = After("mkdir")
    /\ UNCHANGED <<p, args, env, calls, body, base_with_text, islands, files,
                   manifest_json, checksums, ci, stderr, exitcode, qrmeta,
                   prisms, mainVars, meshVars, restVars>>

\* generate_tag.py:486-487. With back lines and style "emboss" line 252 reads
\* p.back_text_height, a field Params does not have: AttributeError
TextSolids ==
    /\ pc = "text"
    /\ calls' = calls \o <<"_text_solid_front", "_text_solids_back">>
    /\ IF BackTextPresent(p) /\ p.back_text_style = "emboss"
       THEN Raise("AttributeError", MsgNoBackTextHeight)
       ELSE pc' = After("text") /\ UNCHANGED <<stderr, exitcode>>
    /\ UNCHANGED <<p, args, env, body, base_with_text, islands, outdir, files,
                   manifest, manifest_json, checksums, ci, mainVars, meshVars, qrVars, restVars>>

\* generate_tag.py:489-500
ApplyText ==
    /\ pc = "apply_text"
    /\ LET front == IF FrontTextPresent(p)
                    THEN IF p.front_text_style = "emboss"
                         THEN <<"union(front_text)">> ELSE <<"cut(front_text)">>
                    ELSE <<>>
       IN  IF p.back_text_style = "engrave" /\ BackTextPresent(p)
           THEN IF BackEngraveTooDeep(p)
                THEN /\ calls' = calls \o front
                     /\ base_with_text' = WithFrontText(p, body)
                     /\ Raise("ValueError", MsgBackEngrave)
                ELSE /\ calls' = calls \o front \o <<"cut(back_text)">>
                     /\ base_with_text' = WithFrontText(p, body)
                     /\ pc' = After("apply_text")
                     /\ UNCHANGED <<stderr, exitcode>>
           ELSE /\ calls' = calls \o front
                /\ base_with_text' = WithFrontText(p, body)
                /\ pc' = After("apply_text")
                /\ UNCHANGED <<stderr, exitcode>>
    /\ UNCHANGED <<p, args, env, body, islands, outdir, files, manifest,
                   manifest_json, checksums, ci, mainVars, meshVars, qrVars, restVars>>

\* save_preview_svg / save_preview_png for both faces, generate_tag.py:507-526
Previews ==
    IF args.previews \in {"svg", "png"}
    THEN {"preview_front.svg", "preview_back.svg"} \cup
         (IF args.previews = "png" /\ env.cairosvg
          THEN {"preview_front.png", "preview_back.png"} ELSE {})
    ELSE {}

\* generate_tag.py:502-526. export_stl writes the file, then loads it and
\* raises when the mesh is not watertight, whatever strict says (328-335)
ExportBase ==
    /\ pc = "export_base"
    /\ IF args.variant \in {"base", "all"}
       THEN \E watertight \in BOOLEAN :
              IF ~watertight
              THEN /\ files' = files \cup {"tag_base.stl"}
                   /\ Raise("ValueError", MsgNotWatertight("tag_base.stl"))
                   /\ UNCHANGED manifest
              ELSE /\ files' = files \cup {"tag_base.stl"} \cup Previews
                   /\ manifest' = manifest \cup {"tag_base.stl"} \cup Previews
                   /\ pc' = After("export_base")
                   /\ UNCHANGED <<stderr, exitcode>>
       ELSE /\ pc' = After("export_base")
            /\ UNCHANGED <<files, manifest, stderr, exitcode>>
    /\ UNCHANGED <<p, args, env, calls, body, base_with_text, islands, outdir,
                   manifest_json, checksums, ci, mainVars, meshVars, qrVars, restVars>>

\* generate_tag.py:528-531
ExportFlat ==
    /\ pc = "export_flat"
    /\ IF args.variant \in {"flat", "all"}
       THEN \E watertight \in BOOLEAN :
              /\ files' = files \cup {"tag_alt_flat_front.stl"}
              /\ IF ~watertight
                 THEN /\ Raise("ValueError", MsgNotWatertight("tag_alt_flat_front.stl"))
                      /\ UNCHANGED manifest
                 ELSE /\ manifest' = manifest \cup {"tag_alt_flat_front.stl"}
                      /\ pc' = After("export_flat")
                      /\ UNCHANGED <<stderr, exitcode>>
       ELSE /\ pc' = After("export_flat")
            /\ UNCHANGED <<files, manifest, stderr, exitcode>>
    /\ UNCHANGED <<p, args, env, calls, body, base_with_text, islands, outdir,
                   manifest_json, checksums, ci, mainVars, meshVars, qrVars, restVars>>

\* generate_tag.py:533-540
ExportIslands ==
    /\ pc = "export_islands"
    /\ IF args.variant \in {"islands", "all"}
       THEN \E wt_b \in BOOLEAN, wt_f \in BOOLEAN :
              IF ~wt_b
              THEN /\ files' = files \cup {"tag_alt_qr_islands_base.stl"}
                   /\ Raise("ValueError", MsgNotWatertight("tag_alt_qr_islands_base.stl"))
                   /\ UNCHANGED manifest
              ELSE IF ~wt_f
              THEN /\ files' = files \cup {"tag_alt_qr_islands_base.stl",
                                           "tag_alt_qr_islands_features.stl"}
                   /\ Raise("ValueError", MsgNotWatertight("tag_alt_qr_islands_features.stl"))
                   /\ UNCHANGED manifest
              ELSE /\ files' = files \cup {"tag_alt_qr_islands_base.stl",
                                           "tag_alt_qr_islands_features.stl"}
                   /\ manifest' = manifest \cup {"tag_alt_qr_islands_base.stl",
                                                 "tag_alt_qr_islands_features.stl"}
                   /\ IF _two_tone_asserts(p, base_with_text, islands)
                      THEN pc' = After("export_islands") /\ UNCHANGED <<stderr, exitcode>>
                      ELSE Raise("AssertionError", <<>>)
       ELSE /\ pc' = After("export_islands")
            /\ UNCHANGED <<files, manifest, stderr, exitcode>>
    /\ UNCHANGED <<p, args, env, calls, body, base_with_text, islands, outdir,
                   manifest_json, checksums, ci, mainVars, meshVars, qrVars, restVars>>

\* generate_tag.py:543-551 (an embossed back text never gets here: TextSolids)
TextFeatures ==
    /\ pc = "text_features"
    /\ IF args.text_features /\ FrontTextPresent(p)
       THEN \E watertight \in BOOLEAN :
              /\ files' = files \cup {"front_text_features.stl"}
              /\ IF ~watertight
                 THEN /\ Raise("ValueError", MsgNotWatertight("front_text_features.stl"))
                      /\ UNCHANGED manifest
                 ELSE /\ manifest' = manifest \cup {"front_text_features.stl"}
                      /\ pc' = After("text_features")
                      /\ UNCHANGED <<stderr, exitcode>>
       ELSE /\ pc' = After("text_features")
            /\ UNCHANGED <<files, manifest, stderr, exitcode>>
    /\ UNCHANGED <<p, args, env, calls, body, base_with_text, islands, outdir,
                   manifest_json, checksums, ci, mainVars, meshVars, qrVars, restVars>>

\* The file one coupon token writes, generate_tag.py:557-573
CouponName(token) ==
    IF token = "nfc" THEN "coupon_nfc.stl"
    ELSE IF UsesSlot(p) THEN "coupon_strap_slot.stl" ELSE "coupon_strap_hole.stl"

\* One round of the loop of generate_tag.py:554-575
Coupon ==
    /\ pc = "coupons"
    /\ ci <= Len(args.emit_coupons)
    /\ \E watertight \in BOOLEAN :
         LET name == CouponName(args.emit_coupons[ci])
         IN  /\ files' = files \cup {name}
             /\ IF ~watertight
                THEN /\ Raise("ValueError", MsgNotWatertight(name))
                     /\ UNCHANGED <<manifest, ci>>
                ELSE /\ manifest' = manifest \cup {name}
                     /\ ci' = ci + 1
                     /\ UNCHANGED <<pc, stderr, exitcode>>
    /\ UNCHANGED <<p, args, env, calls, body, base_with_text, islands, outdir,
                   manifest_json, checksums, mainVars, meshVars, qrVars, restVars>>

\* The loop ends (or emit_coupons is empty)
CouponsDone ==
    /\ pc = "coupons"
    /\ ci > Len(args.emit_coupons)
    /\ pc' = After("coupons")
    /\ UNCHANGED <<p, args, env, calls, body, base_with_text, islands, outdir,
                   files, manifest, manifest_json, checksums, ci, stderr,
                   exitcode, mainVars, meshVars, qrVars, restVars>>

\* generate_tag.py:577-581
WriteManifest ==
    /\ pc = "write_manifest"
    /\ manifest_json' = Append(manifest_json,
                               [files |-> manifest,
                                sha256 |-> [n \in manifest |-> _sha256(read_bytes(n))],
                                meta |-> meta])
    /\ checksums' = ChecksumLines(manifest)
    /\ files' = files \cup {"manifest.json", "checksums.sha256"}
    /\ pc' = After("write_manifest")
    /\ UNCHANGED <<p, args, env, calls, body, base_with_text, islands, outdir,
                   manifest, ci, stderr, exitcode, mainVars, meshVars, qrVars, restVars>>

\* What export_sticker_svg writes, generate_tag.py:383-406
StickerFiles ==
    <<"qr_sticker_30x50.svg">> \o
    (IF env.cairosvg THEN <<"qr_sticker_30x50.png">> ELSE <<>>)

StickerSvgLine ==
    <<[sha256 |-> _sha256(read_bytes("qr_sticker_30x50.svg")), name |-> "qr_sticker_30x50.svg"]>>

\* The lines appended to checksums.sha256, generate_tag.py:589-592: the
\* digest is computed again from the file
StickerLines ==
    <<[sha256 |-> _sha256(read_bytes("qr_sticker_30x50.svg")), name |-> "qr_sticker_30x50.svg"]>> \o
    (IF env.cairosvg
     THEN <<[sha256 |-> _sha256(read_bytes("qr_sticker_30x50.png")),
             name |-> "qr_sticker_30x50.png"]>>
     ELSE <<>>)

\* generate_tag.py:582-595; without segno export_sticker_svg raises, and the
\* except clause only prints a warning
Sticker ==
    /\ pc = "sticker"
    /\ IF env.segno
       THEN /\ files' = files \cup {StickerFiles[i] : i \in 1..Len(StickerFiles)}
            /\ manifest' = manifest \cup {StickerFiles[i] : i \in 1..Len(StickerFiles)}
            /\ manifest_json' = Append(manifest_json,
                                       [files |-> manifest',
                                        sha256 |-> [n \in manifest' |-> _sha256(read_bytes(n))],
                                        meta |-> meta])
            /\ checksums' = checksums \o StickerLines
       ELSE UNCHANGED <<files, manifest, manifest_json, checksums>>
    /\ pc' = After("sticker")
    /\ exitcode' = 0
    /\ UNCHANGED <<p, args, env, calls, body, base_with_text, islands, outdir,
                   ci, stderr, mainVars, meshVars, qrVars, restVars>>

Next ==
    \/ Validate
    \/ BuildBody
    \/ BuildQrIslands
    \/ Mkdir
    \/ TextSolids
    \/ ApplyText
    \/ ExportBase
    \/ ExportFlat
    \/ ExportIslands
    \/ TextFeatures
    \/ Coupon
    \/ CouponsDone
    \/ WriteManifest
    \/ Sticker

Spec == Init /\ [][Next]_vars

---------------------------------------------------------------------------
(* Claims about build_and_export *)

NameQrW == <<"q","r","_","w">>
NameQrBorder == <<"q","r","_","b","o","r","d","e","r">>
NameBodyT == <<"b","o","d","y","_","t">>
NameMinWall == <<"m","i","n","_","w","a","l","l">>

Failed == pc = "failed"

\* The geometry-building steps are every call after _validate_inputs
NoGeometryYet == calls \in {<<>>, <<"_validate_inputs">>}

PocketSumExceeds == p.nfc_depth + p.qr_pocket_depth > p.body_t - 60

OtherFieldsValid ==
    /\ p.qr_w > 0 /\ p.qr_h > 0
    /\ p.qr_border >= 100 /\ p.body_t >= 250 /\ p.min_wall >= 150

\* C1: a parameter set with nfc_depth + qr_pocket_depth > body_t - 0.6 is
\* rejected by _validate_inputs before build_body or any other geometry
\* operation runs; with the sum <= body_t - 0.6 (boundary included) the pocket
\* error is never raised and an otherwise valid set goes on to build_body.
C1_PocketRejection ==
    /\ (PocketSumExceeds /\ pc # "validate") => (Failed /\ NoGeometryYet)
    /\ (PocketSumExceeds /\ OtherFieldsValid /\ pc # "validate")
          => stderr = Traceback("ValueError", MsgPockets)
    /\ ~PocketSumExceeds => stderr # Traceback("ValueError", MsgPockets)
    /\ (~PocketSumExceeds /\ OtherFieldsValid /\ pc # "validate")
          => (pc = "build_body" \/ ~NoGeometryYet)

C1_Witness ==
    /\ PocketSumExceeds /\ OtherFieldsValid
    /\ Failed /\ NoGeometryYet
    /\ stderr = Traceback("ValueError", MsgPockets)

\* C2: run with a parameter set that violates only the pocket-depth
\* constraint, the process exits non-zero and its stderr contains the phrase
\* 'pocket depths'.
C2_StderrNamesPocketDepths ==
    (PocketSumExceeds /\ OtherFieldsValid /\ pc # "validate")
        => (exitcode > 0 /\ Contains(stderr, PhrasePocketDepths))

\* C3 as stated: each of qr_border < 1.0, body_t < 2.5, min_wall < 1.5 makes
\* validation raise an error whose message names that field, and validation
\* changes no field of the parameter set.
C3_EachFieldNamed ==
    [][pc = "validate" =>
         /\ p' = p
         /\ p.qr_border < 100 => (pc' = "failed" /\ Contains(stderr', NameQrBorder))
         /\ p.body_t < 250 => (pc' = "failed" /\ Contains(stderr', NameBodyT))
         /\ p.min_wall < 150 => (pc' = "failed" /\ Contains(stderr', NameMinWall))]_vars

\* The field whose check fails first, in the order of the checks
FirstViolated ==
    IF p.qr_w <= 0 \/ p.qr_h <= 0 THEN NameQrW
    ELSE IF p.qr_border < 100 THEN NameQrBorder
    ELSE IF p.body_t < 250 THEN NameBodyT
    ELSE NameMinWall

\* C3 amended: a parameter set with qr_border < 1.0, body_t < 2.5 or
\* min_wall < 1.5 makes validation raise an error whose message names the
\* first violated constraint in the order qr_w/qr_h > 0, qr_border, body_t,
\* min_wall, and validation changes no field of the parameter set.
C3_FirstViolatedNamed ==
    [][(pc = "validate" /\ (p.qr_border < 100 \/ p.body_t < 250 \/ p.min_wall < 150))
         => /\ p' = p
            /\ pc' = "failed"
            /\ exitcode' = 1
            /\ Contains(stderr', FirstViolated)
            /\ stderr'[1] = "ValueError"]_vars

C3_Witness ==
    /\ p.qr_w > 0 /\ p.qr_border < 100 /\ p.body_t >= 250 /\ p.min_wall >= 150
    /\ Failed
    /\ stderr = Traceback("ValueError", MsgQrBorder)

\* The invariants of the data model, engraving included
DataModelInvariants ==
    /\ ~PocketSumExceeds
    /\ p.qr_border >= 100 /\ p.body_t >= 250 /\ p.min_wall >= 150
    /\ (FrontTextPresent(p) /\ p.front_text_style = "engrave")
          => p.front_text_depth <= p.body_t - p.min_wall
    /\ (BackTextPresent(p) /\ p.back_text_style = "engrave")
          => BackEngraveDepth(p) <= p.body_t - p.min_wall

ParameterErrors ==
    {Traceback("ValueError", m) :
        m \in {MsgQrPositive, MsgQrBorder, MsgBodyT, MsgMinWall, MsgPockets,
               MsgBackEngrave}}

\* C4: every parameter invariant, the engrave depth of front and back text
\* included, is checked before the first geometry-building step: geometry is
\* only built for parameter sets that satisfy them all, and no invocation
\* builds a solid and then fails on a parameter invariant.
C4_InvariantsBeforeGeometry ==
    /\ ~NoGeometryYet => DataModelInvariants
    /\ (Failed /\ stderr \in ParameterErrors) => NoGeometryYet

InCalls(op) == \E i \in 1..Len(calls) : calls[i] = op

BackEngraveViolation ==
    /\ BackTextPresent(p) /\ p.back_text_style = "engrave"
    /\ p.body_t - BackEngraveDepth(p) < p.min_wall

\* C5: with back text present, style 'engrave' and body_t minus the engrave
\* depth below min_wall, build_and_export raises before the back-text cut is
\* applied to the base, for every variant: the cut never happens, and no run
\* gets past the text step without failing.
C5_BackEngraveRejected ==
    BackEngraveViolation =>
        /\ ~InCalls("cut(back_text)")
        /\ pc \notin {"validate", "build_body", "build_qr_islands", "mkdir",
                      "text", "apply_text"} => Failed
        /\ exitcode # 0

C5_Witness ==
    /\ BackEngraveViolation
    /\ InCalls("build_body")
    /\ Failed
    /\ stderr = Traceback("ValueError", MsgBackEngrave)

\* C7: when build_and_export aborts with a validation-class error (from
\* _validate_inputs or the back-engrave minimum-wall check) no file has been
\* written: no STL, no preview, no manifest.json, no checksums.sha256.
C7_NoPartialOutput ==
    (Failed /\ stderr \in ParameterErrors)
        => (files = {} /\ manifest_json = <<>> /\ checksums = <<>>)

C7_Witness ==
    /\ Failed
    /\ stderr = Traceback("ValueError", MsgBackEngrave)
    /\ outdir
    /\ files = {}

NotWatertightErrors ==
    {Traceback("ValueError", MsgNotWatertight(NamesInOrder[i])) :
        i \in 1..Len(NamesInOrder)}

\* C8: a mesh that is not watertight aborts build_and_export only in strict
\* mode; with strict = False the build goes on to the manifest.
C8_AbortOnlyWhenStrict ==
    (Failed /\ stderr \in NotWatertightErrors) => args.strict

\* C10: for every parameter set accepted by validation the plate built by
\* build_body has X extent qr_w + 2*qr_border and Y extent qr_h + 2*qr_border
\* within 0.1 mm (extents are doubled here, and so is the tolerance).
C10_PlateExtents ==
    InCalls("build_body") /\ body # NoSolid =>
        LET dx == (body.xmax2 - body.xmin2) - 2 * (p.qr_w + 2 * p.qr_border)
            dy == (body.ymax2 - body.ymin2) - 2 * (p.qr_h + 2 * p.qr_border)
        IN  /\ -20 < dx /\ dx < 20
            /\ -20 < dy /\ dy < 20

IslandsExported ==
    /\ args.variant \in {"islands", "all"}
    /\ "tag_alt_qr_islands_features.stl" \in manifest

\* C11: for the 'islands' variant and every valid parameter set, in ring mode
\* and in QR mode, the exported base's top Z is body_t/2, the exported
\* features' bottom Z is body_t/2 and the two X/Y bounding boxes coincide, so
\* that no assertion of _two_tone_asserts fails.
C11_TwoToneRegistered ==
    /\ stderr # Traceback("AssertionError", <<>>)
    /\ IslandsExported =>
          /\ base_with_text.zmax2 = p.body_t
          /\ islands.zmin2 = p.body_t
          /\ base_with_text.xmin2 = islands.xmin2
          /\ base_with_text.xmax2 = islands.xmax2
          /\ base_with_text.ymin2 = islands.ymin2
          /\ base_with_text.ymax2 = islands.ymax2

\* The dark cells of the encoder's matrix for the payload, iterated with a
\* border of 4 modules, counted on their own
DarkCellsOfPayload ==
    LET it == matrix_iter(segno_make(args.qr_text), 4)
    IN  Cardinality({rc \in (1..Len(it)) \X (1..Len(it)) : it[rc[1]][rc[2]] = 1})

DarkModulesAgree(m) ==
    m.mode = "qr" =>
        /\ m.dark_modules = Len(prisms)
        /\ m.dark_modules = DarkCellsOfPayload

\* C12: for every payload the dark_modules value recorded in the manifest (in
\* memory and in every manifest.json written) equals the number of prisms
\* build_qr_islands emitted and the number of dark cells of the encoder's
\* matrix iterated with a quiet-zone border of 4.
C12_DarkModulesCounted ==
    /\ meta # <<>> => DarkModulesAgree(meta)
    /\ \A k \in 1..Len(manifest_json) : DarkModulesAgree(manifest_json[k].meta)

C12_Witness ==
    /\ Len(manifest_json) > 0
    /\ manifest_json[1].meta.mode = "qr"
    /\ manifest_json[1].meta.dark_modules = Len(prisms)
    /\ Len(prisms) > 1
    /\ Len(prisms) < symbol_size(segno_make(args.qr_text), 4)

\* Twice the Y centre of the k-th prism build_qr_islands emitted
PrismCentreY2(k) ==
    LET b == Prism(p, symbol_size(segno_make(args.qr_text), 4),
                   prisms[k][1], prisms[k][2])
    IN  (b.ymin2 + b.ymax2) \div 2

\* C21: in single-sided islands mode the prisms are placed with Y inverted:
\* a prism of an earlier matrix row has a larger Y centre than a prism of a
\* later row, row 0 being the topmost.
C21_RowZeroTopmost ==
    \A k1, k2 \in 1..Len(prisms) :
        prisms[k1][1] < prisms[k2][1] => PrismCentreY2(k1) > PrismCentreY2(k2)

BodyBuilt == body # NoSolid

\* C23: the front pocket cut by build_body measures qr_w + 2 * fit_clearance
\* by qr_h + 2 * fit_clearance.
C23_PocketTwiceClearance ==
    BodyBuilt =>
        /\ QrPocket(p).w = p.qr_w + 2 * p.fit_clearance
        /\ QrPocket(p).h = p.qr_h + 2 * p.fit_clearance

\* C24: whichever anchor is cut, slot or hole, the top of its cavity lies
\* exactly one margin (min_wall) below the plate's top edge.
C24_AnchorOneMarginBelowTop ==
    BodyBuilt => PlateHeight(p) - Anchor(p).ymax2 = 2 * p.min_wall

\* The manifest records a colour-switch layer for one of the tested heights
LayerRecorded ==
    /\ meta # <<>>
    /\ "color_switch_layer" \in DOMAIN meta
    /\ p.island_h \in {40, 60}
    /\ args.layer_height \in {16, 20, 28}

C14_ManifestWrittenOnce ==
    /\ Len(manifest_json) <= 1
    /\ \A k \in 1..Len(manifest_json) :
          /\ manifest_json[k].files \subseteq files
          /\ manifest_json[k].files = manifest

\* Place of a file name in ascending order of names
Rank(name) == CHOOSE i \in 1..Len(NamesInOrder) : NamesInOrder[i] = name

Succeeded == pc = "done" /\ exitcode = 0

\* C15: at the end of every successful build_and_export the lines of
\* checksums.sha256 are in ascending order of file name.
C15_ChecksumsSorted ==
    Succeeded =>
        \A i, j \in 1..Len(checksums) :
            i < j => Rank(checksums[i].name) < Rank(checksums[j].name)

\* build_and_export has returned
Returned == pc = "done"

\* manifest.json as last written
LastManifest == manifest_json[Len(manifest_json)]

\* C27: when build_and_export returns, whether or not the sticker export
\* succeeded, the names listed in checksums.sha256 are the keys of "files"
\* in manifest.json, each name is on one line, and the hash of each line is
\* the sha256 the manifest records for that name.
C27_ChecksumsMatchManifest ==
    Returned =>
        /\ Len(manifest_json) > 0
        /\ {checksums[i].name : i \in 1..Len(checksums)} = LastManifest.files
        /\ \A i, j \in 1..Len(checksums) :
              checksums[i].name = checksums[j].name => i = j
        /\ \A i \in 1..Len(checksums) :
              checksums[i].sha256 = LastManifest.sha256[checksums[i].name]

C27_Witness ==
    /\ Returned
    /\ env.segno /\ env.cairosvg
    /\ Len(manifest_json) = 2
    /\ \E i \in 1..Len(checksums) : checksums[i].name = "qr_sticker_30x50.png"
    /\ \E i \in 1..Len(checksums) : checksums[i].name = "tag_base.stl"

\* An invocation of the command-line matrix has run to its end
MatrixRunEnded ==
    /\ p \in MatrixParams
    /\ args \in MatrixArgs
    /\ pc \in {"done", "failed"}

\* C18: every invocation of the command-line matrix exits with status 0 and
\* leaves the files of its variant: islands the base and the features STL,
\* flat tag_alt_flat_front.stl, base tag_base.stl with preview_front.png and
\* preview_back.png.
C18_CliMatrix ==
    MatrixRunEnded =>
        /\ exitcode = 0
        /\ args.variant = "islands" =>
              {"tag_alt_qr_islands_base.stl", "tag_alt_qr_islands_features.stl"}
                  \subseteq files
        /\ args.variant = "flat" => "tag_alt_flat_front.stl" \in files
        /\ args.variant = "base" =>
              {"tag_base.stl", "preview_front.png", "preview_back.png"}
                  \subseteq files

---------------------------------------------------------------------------
(* main(): load_params, apply_preset, apply_overrides *)

\* 'Unknown preset: '
MsgUnknownPreset ==
    <<"U","n","k","n","o","w","n"," ","p","r","e","s","e","t",":"," ">>

\* The parameter fields the merge is followed for
Fields == DOMAIN Params

\* The options of parse_args named like a Params field, among those kept here
\* (there is no --strap_slot_w and no --strap_slot_l)
FieldOptions == {"qr_border", "fit_clearance", "island_h", "strap_hole_d"}

\* getattr(args, field, None)
GetArg(a, field) == IF field \in FieldOptions THEN a[field] ELSE None

\* load_params: Params() with every key of the file set on it
load_params(a, y) ==
    IF a.params
    THEN [f \in Fields |-> IF f \in DOMAIN y.data THEN y.data[f] ELSE Params[f]]
    ELSE Params

\* The file's 'presets' table as apply_preset reads it
Presets(a, y) == IF a.params THEN y.presets ELSE <<>>

\* prof is missing or empty: apply_preset raises ValueError
UnknownPreset(a, y) ==
    /\ a.preset # ""
    /\ \/ a.preset \notin DOMAIN Presets(a, y)
       \/ DOMAIN Presets(a, y)[a.preset] = {}

\* apply_preset, when it returns
apply_preset(q, a, y) ==
    IF a.preset = "" THEN q
    ELSE LET prof == Presets(a, y)[a.preset]
         IN  [f \in Fields |->
                 IF f \in {"fit_clearance", "corner_r", "island_h"} /\ f \in DOMAIN prof
                 THEN prof[f] ELSE q[f]]

\* apply_overrides: the loop over the fields, then --hole, then --slot
apply_overrides(q, a) ==
    LET q1 == [f \in Fields |-> IF GetArg(a, f) # None THEN GetArg(a, f) ELSE q[f]]
        q2 == IF a.hole # None
              THEN [q1 EXCEPT !.strap_hole_d = a.hole, !.strap_slot_w = 0,
                              !.strap_slot_l = 0]
              ELSE q1
    IN  IF a.slot # <<>>
        THEN [q2 EXCEPT !.strap_slot_w = a.slot[1], !.strap_slot_l = a.slot[2],
                        !.strap_hole_d = 0]
        ELSE q2

YamlKeys == {"qr_border", "fit_clearance", "island_h", "strap_hole_d", "strap_slot_w"}

YamlValue(k) == IF k \in {"strap_hole_d", "strap_slot_w"} THEN 600 ELSE 200

\* The mappings yaml.safe_load can return for the file's parameter keys
YamlData == {[k \in d |-> YamlValue(k)] : d \in SUBSET YamlKeys}

Profiles ==
    {<<>>,
     [fit_clearance |-> 35],
     [fit_clearance |-> 35, corner_r |-> 250, island_h |-> 65,
      recommended_layer_height |-> 20]}

YamlFiles ==
    {[data |-> d, presets |-> ps] :
        d \in YamlData,
        ps \in {<<>>} \cup {[n \in {"pla"} |-> prof] : prof \in Profiles}}

CliSets ==
    {[params |-> f, preset |-> pr, qr_border |-> b, fit_clearance |-> c,
      island_h |-> i, strap_hole_d |-> d, hole |-> h, slot |-> s] :
        f \in BOOLEAN, pr \in {"", "pla"}, b \in {None, 400}, c \in {None, 40},
        i \in {None, 70}, d \in {None, 550}, h \in {None, 450},
        s \in {<<>>, <<500, 2000>>}}

MainOrderPresetLast ==
    <<"load_params", "apply_overrides", "apply_preset", "build_and_export">>

\* generate_tag.py:668-680
MainOrder ==
    <<"load_params", "apply_preset", "apply_overrides", "build_and_export">>

MainAfter(s) == MainOrder[(CHOOSE i \in 1..Len(MainOrder) : MainOrder[i] = s) + 1]

MainInit ==
    /\ p = Params
    /\ mainpc = "load_params"
    /\ yaml \in YamlFiles
    /\ cli \in CliSets
    /\ BuildIdle
    /\ MeshIdle
    /\ QrIdle
    /\ RestIdle

LoadParams ==
    /\ mainpc = "load_params"
    /\ p' = load_params(cli, yaml)
    /\ mainpc' = MainAfter("load_params")
    /\ UNCHANGED <<yaml, cli, buildVars, meshVars, qrVars, restVars>>

ApplyPreset ==
    /\ mainpc = "apply_preset"
    /\ IF UnknownPreset(cli, yaml)
       THEN /\ mainpc' = "failed"
            /\ stderr' = Traceback("ValueError", MsgUnknownPreset \o <<cli.preset>>)
            /\ exitcode' = 1
            /\ UNCHANGED p
       ELSE /\ p' = apply_preset(p, cli, yaml)
            /\ mainpc' = MainAfter("apply_preset")
            /\ UNCHANGED <<stderr, exitcode>>
    /\ UNCHANGED <<yaml, cli, args, env, pc, calls, body, base_with_text,
                   islands, outdir, files, manifest, manifest_json, checksums,
                   ci, meshVars, qrVars, restVars>>

ApplyOverrides ==
    /\ mainpc = "apply_overrides"
    /\ p' = apply_overrides(p, cli)
    /\ mainpc' = MainAfter("apply_overrides")
    /\ UNCHANGED <<yaml, cli, buildVars, meshVars, qrVars, restVars>>

MainNext ==
    \/ LoadParams
    \/ ApplyPreset
    \/ ApplyOverrides

SpecMain == MainInit /\ [][MainNext]_vars

\* What the command line gives for field f, None when it gives nothing
CliValue(f) ==
    IF f = "strap_hole_d"
    THEN IF cli.slot # <<>> THEN 0
         ELSE IF cli.hole # None THEN cli.hole ELSE cli.strap_hole_d
    ELSE IF f = "strap_slot_w"
    THEN IF cli.slot # <<>> THEN cli.slot[1]
         ELSE IF cli.hole # None THEN 0 ELSE None
    ELSE IF f = "strap_slot_l"
    THEN IF cli.slot # <<>> THEN cli.slot[2]
         ELSE IF cli.hole # None THEN 0 ELSE None
    ELSE IF f \in FieldOptions THEN cli[f] ELSE None

PresetSupplies(f) ==
    /\ cli.preset # "" /\ cli.params
    /\ cli.preset \in DOMAIN yaml.presets
    /\ f \in {"fit_clearance", "corner_r", "island_h"}
    /\ f \in DOMAIN yaml.presets[cli.preset]

FileSupplies(f) == cli.params /\ f \in DOMAIN yaml.data

\* explicit > preset > file > default
ByPrecedence(f) ==
    IF CliValue(f) # None THEN CliValue(f)
    ELSE IF PresetSupplies(f) THEN yaml.presets[cli.preset][f]
    ELSE IF FileSupplies(f) THEN yaml.data[f]
    ELSE Params[f]

\* C6: once main() has applied load_params, apply_preset and apply_overrides,
\* every parameter field holds the value of the highest-precedence source that
\* supplies it: command line > preset > params file > built-in default.
C6_Precedence ==
    mainpc = "build_and_export" => \A f \in Fields : p[f] = ByPrecedence(f)

C6_Witness ==
    /\ mainpc = "build_and_export"
    /\ FileSupplies("qr_border") /\ cli.qr_border # None
    /\ p.qr_border = cli.qr_border
    /\ FileSupplies("fit_clearance") /\ PresetSupplies("fit_clearance")
    /\ cli.fit_clearance = None
    /\ p.fit_clearance = yaml.presets[cli.preset].fit_clearance
    /\ FileSupplies("island_h") /\ ~PresetSupplies("island_h")
    /\ cli.island_h = None
    /\ p.island_h = yaml.data.island_h

---------------------------------------------------------------------------
(* _triangulate_and_write: the deterministic STL serialisation *)

\* Most faces of a mesh
MaxFaces == 2

\* Vertices quantised to 1e-6 mm, as <<x, y, z>>
Points == {<<0, 0, 0>>, <<1, 0, 0>>, <<0, 1, 0>>, <<0, 0, 1>>}

\* A face: three different vertices, in the order the tessellator gives them
Faces == {f \in Points \X Points \X Points : Cardinality({f[1], f[2], f[3]}) = 3}

\* Python's list comparison a < b on two lists of the same length
RECURSIVE ListLess(_, _)
ListLess(a, b) ==
    IF a = <<>> THEN FALSE
    ELSE IF Head(a) # Head(b) THEN Head(a) < Head(b)
    ELSE ListLess(Tail(a), Tail(b))

\* q.sort() on the three quantised points of a face
SortedPoints(f) ==
    CHOOSE s \in Faces :
        /\ {s[1], s[2], s[3]} = {f[1], f[2], f[3]}
        /\ ListLess(s[1], s[2]) /\ ListLess(s[2], s[3])

\* face_key, flattened: comparing lists of lists is comparing their elements
face_key(f) == SortedPoints(f)[1] \o SortedPoints(f)[2] \o SortedPoints(f)[3]

\* Insert face f after every face whose key is not greater: a stable sort
RECURSIVE InsertByKey(_, _)
InsertByKey(sorted, f) ==
    IF sorted = <<>> THEN <<f>>
    ELSE IF ListLess(face_key(f), face_key(Head(sorted)))
         THEN <<f>> \o sorted
         ELSE <<Head(sorted)>> \o InsertByKey(Tail(sorted), f)

\* mesh.faces[sorted(range(len(mesh.faces)), key=face_key)]
RECURSIVE SortFaces(_)
SortFaces(fs) ==
    IF fs = <<>> THEN <<>>
    ELSE InsertByKey(SortFaces(SubSeq(fs, 1, Len(fs) - 1)), fs[Len(fs)])

\* The normal trimesh writes for a face: (b - a) x (c - a), not normalised
Normal(f) ==
    LET u == <<f[2][1] - f[1][1], f[2][2] - f[1][2], f[2][3] - f[1][3]>>
        v == <<f[3][1] - f[1][1], f[3][2] - f[1][2], f[3][3] - f[1][3]>>
    IN  <<u[2] * v[3] - u[3] * v[2], u[3] * v[1] - u[1] * v[3],
          u[1] * v[2] - u[2] * v[1]>>

\* export_stl: per face its normal and its three vertices, in face order
Serialise(fs) == [i \in 1..Len(fs) |-> <<Normal(fs[i]), fs[i][1], fs[i][2], fs[i][3]>>]

\* The bytes _triangulate_and_write puts in the file
_triangulate_and_write(fs, deterministic) ==
    IF deterministic THEN Serialise(SortFaces(fs)) ELSE Serialise(fs)

\* The same triangle, starting at another vertex
Rotations(f) == {f, <<f[2], f[3], f[1]>>, <<f[3], f[1], f[2]>>}

\* Meshes: up to MaxFaces faces, no two on the same three vertices
Meshes ==
    {m \in UNION {[1..n -> Faces] : n \in 1..MaxFaces} :
        \A i, j \in 1..Len(m) :
            i # j => {m[i][1], m[i][2], m[i][3]} # {m[j][1], m[j][2], m[j][3]}}

\* The same triangles in another order, each from any starting vertex
Retessellations(m) ==
    {r \in [1..Len(m) -> Faces] :
        \E perm \in [1..Len(m) -> 1..Len(m)] :
            /\ \A i, j \in 1..Len(m) : i # j => perm[i] # perm[j]
            /\ \A i \in 1..Len(m) : r[i] \in Rotations(m[perm[i]])}

MeshInit ==
    /\ p = Params
    /\ args \in {[IdleArgs EXCEPT !.deterministic = d] : d \in BOOLEAN}
    /\ BuildRestIdle
    /\ MainIdle
    /\ mesh = <<>>
    /\ stl = <<>>
    /\ QrIdle
    /\ RestIdle

\* cq.exporters.export + trimesh.load_mesh in export_stl, for the next build:
\* the second build tessellates the same solid, in whatever order the kernel
\* walks it
Tessellate ==
    /\ Len(mesh) < 2
    /\ Len(stl) = Len(mesh)
    /\ \E m \in (IF mesh = <<>> THEN Meshes ELSE Retessellations(mesh[1])) :
         mesh' = Append(mesh, m)
    /\ UNCHANGED <<p, buildVars, mainVars, stl, qrVars, restVars>>

\* _triangulate_and_write for the build just tessellated
Write ==
    /\ Len(stl) < Len(mesh)
    /\ stl' = Append(stl, _triangulate_and_write(mesh[Len(stl) + 1], args.deterministic))
    /\ UNCHANGED <<p, buildVars, mainVars, mesh, qrVars, restVars>>

MeshNext ==
    \/ Tessellate
    \/ Write

SpecMesh == MeshInit /\ [][MeshNext]_vars

\* C9: with deterministic = True two builds of the same solid record the same
\* sha256 for the STL, whatever order the tessellator gives the triangles in
\* and whichever vertex each triangle starts at.
C9_SameHash ==
    (args.deterministic /\ Len(stl) = 2) => _sha256(stl[1]) = _sha256(stl[2])

---------------------------------------------------------------------------
(* reversible_tag.py and svg_to_3d.py: the dual-stack reversible tag *)

\* The fallback defaults of reversible_tag.py:150-167, which are also the
\* values of the web layout's "input" section used here
FallbackDefaults ==
    [tagW |-> 20000, tagH |-> 7400, totalThickness |-> 300,
     webThickness |-> 40, modules |-> 29, moduleSize |-> 200, quiet |-> 0,
     outerT |-> 400, outerR |-> 400, outerB |-> 400, outerL |-> 400,
     gutter |-> 300, qrPadT |-> 0, qrPadR |-> 0, qrPadB |-> 0, qrPadL |-> 0,
     txPadT |-> 800, txPadR |-> 300, txPadB |-> 800, txPadL |-> 300,
     fsH |-> 1000, fsN |-> 600, fsP |-> 500, fsE |-> 500, fsF |-> 700,
     slitWidth |-> 500, slitHeight |-> 2000, slitMarginR |-> 500]

\* The payloads of the reversible tag
QrUrls == {"https://oriashkenazi.github.io/luggage-recovery", "DEMO"}

\* The "stacking" sections a layout_config.json can hold
Stackings ==
    {[totalThickness |-> 300, webThickness |-> w, bottomSide |-> bs,
      topSide |-> [mirrored |-> FALSE]] :
        w \in {40, 290, 0},
        bs \in {[mirrored |-> b] : b \in BOOLEAN} \cup
               {[mirrored |-> b, mirrorPlane |-> pl] :
                    b \in BOOLEAN, pl \in {"YZ", "XZ"}}}

\* layout_config.json as the web layout engine writes it: the code block on
\* the left, the text column in the middle, the slit on the right
LayoutConfigs ==
    {[input |-> [FallbackDefaults EXCEPT !.fsH = h],
      computed |-> [qrCenter |-> [x |-> -6700, y |-> 0],
                    textArea |-> [left |-> -3200, right |-> 8500,
                                  top |-> 2500, bottom |-> -2500],
                    slitCenter |-> [x |-> 9250, y |-> 0]],
      stacking |-> st] : st \in Stackings, h \in {1000, 1400}}

\* The rect elements <<x, y, width, height>> of the layers of the precise SVG,
\* in SVG coordinates (origin top left, Y down)
SvgQrLayer == {<<400, 3400, 200, 200>>, <<800, 3400, 200, 200>>, <<400, 3600, 200, 200>>}
SvgTextLayer == {<<1600, 1200, 9000, 1000>>, <<1600, 5200, 9000, 700>>}

\* luggage_tag_precise.svg: its size and which feature layers it has
PreciseSvgs ==
    {[width |-> 20000, height |-> 7400, qr |-> q, text |-> t] :
        q \in BOOLEAN, t \in BOOLEAN}

\* reversible_tag.py:265: max(0.1, (thickness - web_thickness) / 2)
half_depth(thickness, web_thickness) == Max(10, (thickness - web_thickness) \div 2)

\* svg_to_3d.py:85 and 142: (thickness - web_thickness) / 2
svg_half_depth(thickness, web_thickness) == (thickness - web_thickness) \div 2

\* thickness and web_thickness of reversible_tag.py:65-66 and 152-153
Thickness(config) ==
    IF config # <<>> THEN config.stacking.totalThickness
    ELSE FallbackDefaults.totalThickness

WebThickness(config) ==
    IF config # <<>> THEN config.stacking.webThickness
    ELSE FallbackDefaults.webThickness

\* One feature solid: the box around it, the stack it was built for and the
\* mirror planes applied to it so far; r is its footprint, with the text and
\* the font sizes of a text line
Feature(r, zlo, zhi, side) ==
    [xlo |-> r.xlo, xhi |-> r.xhi, ylo |-> r.ylo, yhi |-> r.yhi,
     zlo |-> zlo, zhi |-> zhi, text |-> r.text, fs_init |-> r.fs_init,
     fs |-> r.fs, side |-> side, mirrors |-> <<>>]

\* A solid extruded d up from z = 0
FrontFeature(r, d) == Feature(r, Min(0, d), Max(0, d), "front")

\* A solid extruded d down from z = thickness
BackFeature(r, t, d) == Feature(r, Min(t, t - d), Max(t, t - d), "back")

\* Workplane.mirror(mirrorPlane=...) about the origin
mirror(S, mirrorPlane) ==
    {[e EXCEPT !.xlo = IF mirrorPlane = "YZ" THEN -e.xhi ELSE e.xlo,
               !.xhi = IF mirrorPlane = "YZ" THEN -e.xlo ELSE e.xhi,
               !.ylo = IF mirrorPlane = "XZ" THEN -e.yhi ELSE e.ylo,
               !.yhi = IF mirrorPlane = "XZ" THEN -e.ylo ELSE e.yhi,
               !.zlo = IF mirrorPlane = "XY" THEN -e.zhi ELSE e.zlo,
               !.zhi = IF mirrorPlane = "XY" THEN -e.zlo ELSE e.zhi,
               !.mirrors = Append(e.mirrors, mirrorPlane)] : e \in S}

\* .center(x, y).rect(w, h): the footprint of a module
Rect(x, y, w, h) ==
    [xlo |-> x - w \div 2, xhi |-> x + w \div 2,
     ylo |-> y - h \div 2, yhi |-> y + h \div 2,
     text |-> "", fs_init |-> 0, fs |-> 0]

\* segno.make(qr_url, error='l'): a version 3 symbol (29 modules) for the
\* URL, version 1 (21) for the short payload. The finder patterns, their
\* light separators and the timing patterns are those of every QR symbol;
\* the other modules depend on the payload
segno_make_l(url) ==
    LET n == IF url = "DEMO" THEN 21 ELSE 29
        salt == IF url = "DEMO" THEN 1 ELSE 0
        InFinder(i, j) == (i <= 7 /\ j <= 7) \/ (i <= 7 /\ j >= n - 6)
                          \/ (i >= n - 6 /\ j <= 7)
        InCorner(i, j) == (i <= 8 /\ j <= 8) \/ (i <= 8 /\ j >= n - 7)
                          \/ (i >= n - 7 /\ j <= 8)
        a(i) == IF i <= 7 THEN i - 1 ELSE i - (n - 6)
        FinderDark(i, j) ==
            \/ a(i) \in {0, 6} \/ a(j) \in {0, 6}
            \/ (a(i) \in 2..4 /\ a(j) \in 2..4)
    IN  [i \in 1..n |-> [j \in 1..n |->
            IF InFinder(i, j) THEN (IF FinderDark(i, j) THEN 1 ELSE 0)
            ELSE IF InCorner(i, j) THEN 0
            ELSE IF i = 7 THEN j % 2
            ELSE IF j = 7 THEN i % 2
            ELSE IF (i * j + i + salt) % 3 = 0 THEN 0 ELSE 1]]

\* modules after reversible_tag.py:179-185: qr.symbol_size()[0], which
\* counts the default border of 4 modules on each side
Modules(url) == symbol_size(segno_make_l(url), 4)

\* The light modules, reversible_tag.py:270-275: squares of module_size
LightModules(url, qr_x, qr_y, ms) ==
    LET qr == matrix_iter(segno_make_l(url), 0)
        qr_size == Modules(url) * ms
    IN  {Rect(qr_x - qr_size \div 2 + (rc[2] - 1) * ms + ms \div 2,
              qr_y + qr_size \div 2 - (rc[1] - 1) * ms - ms \div 2, ms, ms) :
            rc \in {d \in (1..Len(qr)) \X (1..Len(qr)) : qr[d[1]][d[2]] = 0}}

\* The bounding-box width of a line of text at font size fs, by the estimate
\* the repository uses: 0.6 of the font size for each character
TextWidth(text, fs) == (Len(text) * fs * 6) \div 10

\* .center(x, y).text(txt, fs, ..., halign='left', valign=...): the line is
\* rendered at the size fs it is given
TextLine(x, y, txt, fs, valign) ==
    [xlo |-> x, xhi |-> x + TextWidth(txt, fs),
     ylo |-> IF valign = "top" THEN y - fs
             ELSE IF valign = "center" THEN y - fs \div 2 ELSE y,
     yhi |-> IF valign = "top" THEN y
             ELSE IF valign = "center" THEN y + fs \div 2 ELSE y + fs,
     text |-> txt, fs_init |-> fs, fs |-> fs]

\* The header, the three contact lines and the footer,
\* reversible_tag.py:322-368
TextAnchors(cfg, area) ==
    LET contact_y0 == (area.top + area.bottom) \div 2 + cfg.fsN
        line_gap == (cfg.fsN * 5) \div 4
    IN  {TextLine(area.left, area.top - cfg.fsH \div 2, "FOUND MY LUGGAGE?",
                  cfg.fsH, "top"),
         TextLine(area.left, contact_y0, "ORI ASHKENAZI", cfg.fsN, "center"),
         TextLine(area.left, contact_y0 - line_gap, "+972-50-971-3042",
                  cfg.fsP, "center"),
         TextLine(area.left, contact_y0 - 2 * line_gap,
                  "ORIASHKENAZI93@GMAIL.COM", cfg.fsE, "center"),
         TextLine(area.left, area.bottom + cfg.fsF \div 2,
                  "SCAN QR OR CALL/TEXT", cfg.fsF, "bottom")}

\* cfg of reversible_tag.py:53 and the fallback defaults
Cfg(config) == IF config # <<>> THEN config.input ELSE FallbackDefaults

\* qr_x, qr_y of reversible_tag.py:251-259
QrCenter(config, url) ==
    IF config # <<>> THEN config.computed.qrCenter
    ELSE LET c == FallbackDefaults
             left_edge == -(c.tagW \div 2) + c.outerL
             bottom == -(c.tagH \div 2) + c.outerB
             quiet_zone == c.quiet * c.moduleSize
             qr_size == Modules(url) * c.moduleSize
         IN  [x |-> left_edge + c.qrPadL + quiet_zone + qr_size \div 2,
              y |-> bottom + c.qrPadB + quiet_zone + qr_size \div 2]

\* The text area of reversible_tag.py:308-320
TextArea(config, url) ==
    IF config # <<>> THEN config.computed.textArea
    ELSE LET c == FallbackDefaults
             left_edge == -(c.tagW \div 2) + c.outerL
             right_edge == c.tagW \div 2 - c.outerR
             left_col_xmax == left_edge
                              + c.moduleSize * (Modules(url) + 2 * c.quiet)
                              + c.qrPadL + c.qrPadR
         IN  [left |-> left_col_xmax + c.gutter + c.txPadL,
              right |-> right_edge - c.txPadR,
              top |-> c.tagH \div 2 - c.outerT - c.txPadT,
              bottom |-> -(c.tagH \div 2) + c.outerB + c.txPadB]

\* The footprint of every feature of the parametric path: modules, then text
ParametricFeatures(config, url) ==
    LightModules(url, QrCenter(config, url).x, QrCenter(config, url).y,
                 Cfg(config).moduleSize)
    \cup TextAnchors(Cfg(config), TextArea(config, url))

\* The main rectangle of the slit, reversible_tag.py:390-406: slit_width by
\* slit_height - slit_width, centred on (slit_cx, slit_cy); the rounded ends
\* lie above and below it
SlitRect(config) ==
    LET c == Cfg(config)
        cx == IF config # <<>> THEN config.computed.slitCenter.x
              ELSE c.tagW \div 2 - c.slitMarginR - c.slitWidth \div 2
        cy == IF config # <<>> THEN config.computed.slitCenter.y ELSE 0
    IN  Rect(cx, cy, c.slitWidth, c.slitHeight - c.slitWidth)

\* svg_to_3d.py:102-103 and 173-174: the centre of an SVG rect in CadQuery
\* coordinates
SvgCentre(svg, e) ==
    <<e[1] + e[3] \div 2 - svg.width \div 2,
      svg.height \div 2 - (e[2] + e[4] \div 2)>>

\* create_qr_features_from_svg and create_text_features_from_svg: the pair
\* (features_front, features_back) of one layer; a missing layer gives two
\* empty workplanes, a present one has its front stack mirrored before return
SvgLayerFeatures(svg, present, layer, t, w) ==
    IF ~present THEN <<{}, {}>>
    ELSE <<mirror({FrontFeature(Rect(SvgCentre(svg, e)[1], SvgCentre(svg, e)[2],
                                     e[3], e[4]),
                                svg_half_depth(t, w)) : e \in layer}, "YZ"),
           {BackFeature(Rect(SvgCentre(svg, e)[1], SvgCentre(svg, e)[2],
                             e[3], e[4]), t,
                        svg_half_depth(t, w)) : e \in layer}>>

\* create_truly_reversible_tag is called with a layout config file or without
\* one, with a precise SVG or without one
RevInit ==
    /\ p = Params
    /\ BuildIdle
    /\ MainIdle
    /\ MeshIdle
    /\ QrIdle
    /\ AppIdle
    /\ LayIdle
    /\ TglIdle
    /\ revpc = "load_config"
    /\ layout_config \in {<<>>} \cup LayoutConfigs
    /\ precise_svg \in {<<>>} \cup PreciseSvgs
    /\ qr_url \in QrUrls
    /\ features_front = {}
    /\ features_back = {}
    /\ features = {}
    /\ rev_ops = <<>>
    /\ rev_files = {}
    /\ rev_manifest = <<>>

\* reversible_tag.py:47-167: with a config and a precise SVG the SVG importer
\* is used, otherwise the parametric generator
LoadLayoutConfig ==
    /\ revpc = "load_config"
    /\ revpc' = IF layout_config # <<>> /\ precise_svg # <<>>
                THEN "generate_3d_from_svg" ELSE "build_features"
    /\ UNCHANGED <<layout_config, precise_svg, qr_url, features_front,
                   features_back, features, rev_ops, rev_files, rev_manifest>>
    /\ UNCHANGED notRev

\* generate_3d_from_svg, svg_to_3d.py:260-320
Generate3dFromSvg ==
    /\ revpc = "generate_3d_from_svg"
    /\ LET st == layout_config.stacking
           qr == SvgLayerFeatures(precise_svg, precise_svg.qr, SvgQrLayer,
                                  st.totalThickness, st.webThickness)
           tx == SvgLayerFeatures(precise_svg, precise_svg.text, SvgTextLayer,
                                  st.totalThickness, st.webThickness)
       IN  /\ features_front' = qr[1] \cup tx[1]
           /\ features_back' = qr[2] \cup tx[2]
           /\ features' = features_front' \cup features_back'
           /\ rev_ops' = (IF precise_svg.qr THEN <<"mirror(qr_front)">> ELSE <<>>)
                         \o (IF precise_svg.text THEN <<"mirror(text_front)">> ELSE <<>>)
                         \o <<"union(qr_front, text_front)", "union(front, back)">>
    /\ rev_files' = {"reversible_tag_base.stl", "reversible_tag_features.stl"}
    /\ revpc' = "svg_manifest"
    /\ UNCHANGED <<layout_config, precise_svg, qr_url, rev_manifest>>
    /\ UNCHANGED notRev

\* reversible_tag.py:118-143
WriteSvgManifest ==
    /\ revpc = "svg_manifest"
    /\ rev_manifest' =
         [source |-> "svg",
          qr |-> [modules |-> layout_config.input.modules,
                  module_mm |-> layout_config.input.moduleSize,
                  quiet_modules |-> layout_config.input.quiet,
                  url |-> qr_url],
          stacking |-> layout_config.stacking,
          files |-> [base |-> "reversible_tag_base.stl",
                     features |-> "reversible_tag_features.stl"]]
    /\ rev_files' = rev_files \cup {"reversible_manifest.json"}
    /\ revpc' = "done"
    /\ UNCHANGED <<layout_config, precise_svg, qr_url, features_front,
                   features_back, features, rev_ops>>
    /\ UNCHANGED notRev

\* reversible_tag.py:263-368: every light module and every text line is built
\* twice, up from z = 0 and down from z = thickness
BuildFeatures ==
    /\ revpc = "build_features"
    /\ LET t == Thickness(layout_config)
           d == half_depth(t, WebThickness(layout_config))
           xy == ParametricFeatures(layout_config, qr_url)
       IN  /\ features_front' = {FrontFeature(e, d) : e \in xy}
           /\ features_back' = {BackFeature(e, t, d) : e \in xy}
    /\ revpc' = "stacking"
    /\ UNCHANGED <<layout_config, precise_svg, qr_url, features, rev_ops,
                   rev_files, rev_manifest>>
    /\ UNCHANGED notRev

\* reversible_tag.py:373-387
ApplyStacking ==
    /\ revpc = "stacking"
    /\ IF layout_config # <<>>
       THEN LET bs == layout_config.stacking.bottomSide
                mirror_plane == IF "mirrorPlane" \in DOMAIN bs
                                THEN bs.mirrorPlane ELSE "YZ"
            IN  IF bs.mirrored
                THEN /\ features_front' = mirror(features_front, mirror_plane)
                     /\ rev_ops' = Append(rev_ops, "mirror(front)")
                ELSE UNCHANGED <<features_front, rev_ops>>
       ELSE /\ features_front' = mirror(features_front, "YZ")
            /\ rev_ops' = Append(rev_ops, "mirror(front)")
    /\ revpc' = "export"
    /\ UNCHANGED <<layout_config, precise_svg, qr_url, features_back, features,
                   rev_files, rev_manifest>>
    /\ UNCHANGED notRev

\* reversible_tag.py:421-432
UnionAndExport ==
    /\ revpc = "export"
    /\ features' = features_front \cup features_back
    /\ rev_ops' = Append(rev_ops, "union(front, back)")
    /\ rev_files' = {"reversible_tag_base.stl", "reversible_tag_features.stl"}
    /\ revpc' = "manifest"
    /\ UNCHANGED <<layout_config, precise_svg, qr_url, features_front,
                   features_back, rev_manifest>>
    /\ UNCHANGED notRev

\* reversible_tag.py:434-452
WriteRevManifest ==
    /\ revpc = "manifest"
    /\ rev_manifest' =
         [qr |-> [modules |-> Modules(qr_url),
                  module_mm |-> Cfg(layout_config).moduleSize,
                  url |-> qr_url],
          stacking |-> [top |-> "non-mirrored",
                        bottom |-> "mirrored across YZ (horizontal)"],
          files |-> [base |-> "reversible_tag_base.stl",
                     features |-> "reversible_tag_features.stl"]]
    /\ rev_files' = rev_files \cup {"reversible_manifest.json"}
    /\ revpc' = "done"
    /\ UNCHANGED <<layout_config, precise_svg, qr_url, features_front,
                   features_back, features, rev_ops>>
    /\ UNCHANGED notRev

RevNext ==
    \/ LoadLayoutConfig
    \/ Generate3dFromSvg
    \/ WriteSvgManifest
    \/ BuildFeatures
    \/ ApplyStacking
    \/ UnionAndExport
    \/ WriteRevManifest

SpecRev == RevInit /\ [][RevNext]_vars

FeaturesExported == "reversible_tag_features.stl" \in rev_files

\* Position of the first occurrence of op in rev_ops, 0 when it is absent
OpIndex(op) ==
    IF \E k \in 1..Len(rev_ops) : rev_ops[k] = op
    THEN CHOOSE k \in 1..Len(rev_ops) :
            rev_ops[k] = op /\ \A j \in 1..(k - 1) : rev_ops[j] # op
    ELSE 0

\* C13: on every path that produces dual-stack features (parametric with a
\* layout config, parametric with the fallback defaults, SVG importer) every
\* solid of the front stack in the exported feature set has been mirrored
\* exactly once, across the YZ plane, and every mirror was applied before the
\* front stack was unioned with the back stack.
C13_FrontMirroredOnce ==
    FeaturesExported =>
        /\ \A e \in features : e.side = "front" => e.mirrors = <<"YZ">>
        /\ \A e \in features : e.side = "back" => e.mirrors = <<>>
        /\ \A k \in 1..Len(rev_ops) :
              rev_ops[k] \in {"mirror(front)", "mirror(qr_front)", "mirror(text_front)"}
                  => k < OpIndex("union(front, back)")

\* Every text value recorded in a reversible_manifest.json
RevManifestTexts(m) ==
    {m.qr.url, m.files.base, m.files.features}
    \cup (IF "source" \in DOMAIN m THEN {m.source} ELSE {})
    \cup (IF "bottom" \in DOMAIN m.stacking
          THEN {m.stacking.top, m.stacking.bottom} ELSE {})

\* C16: no manifest written by a generator contains the raw payload text of
\* the code, only a hash of it; here for reversible_manifest.json on the
\* parametric path and on the SVG path.
C16_NoRawPayload ==
    rev_manifest # <<>> => qr_url \notin RevManifestTexts(rev_manifest)

\* The stacks as exported
FrontStack == {e \in features : e.side = "front"}
BackStack == {e \in features : e.side = "back"}

\* C22: in both dual-stack generators the front stack occupies z in [0, d]
\* and the back stack z in [thickness - d, thickness], with
\* d = (thickness - web_thickness) / 2, so the solid between the stacks is
\* exactly web_thickness thick, and more than zero.
C22_WebBetweenStacks ==
    FeaturesExported =>
        LET t == Thickness(layout_config)
            w == WebThickness(layout_config)
        IN  /\ \A e \in FrontStack : e.zlo = 0 /\ 2 * e.zhi = t - w
            /\ \A e \in BackStack : 2 * e.zlo = t + w /\ e.zhi = t
            /\ \A f \in FrontStack : \A b \in BackStack :
                  b.zlo - f.zhi = w /\ b.zlo - f.zhi > 0

\* The parametric generator ran, not the SVG importer
ParametricExported ==
    FeaturesExported /\ ~(layout_config # <<>> /\ precise_svg # <<>>)

\* The size fit_font_size returns for a line of nominal size fs_init in a
\* column max_width wide: max(2.2, fs * max_width / width) when it is too wide
FittedSize(text, fs_init, max_width) ==
    IF TextWidth(text, fs_init) <= max_width THEN fs_init
    ELSE Max(220, (fs_init * max_width) \div TextWidth(text, fs_init))

\* C25: every text line wider than the text column at its nominal size is
\* rendered at max(minimum readable size, nominal * available / width), never
\* larger than nominal; a line that fits keeps its nominal size.
C25_TextAutoFit ==
    ParametricExported =>
        LET area == TextArea(layout_config, qr_url)
        IN  \A e \in features :
                e.text # "" =>
                    /\ e.fs = FittedSize(e.text, e.fs_init, area.right - area.left)
                    /\ e.fs <= e.fs_init

\* Two footprints share interior points
FootprintsOverlap(a, b) ==
    /\ a.xlo < b.xhi /\ b.xlo < a.xhi
    /\ a.ylo < b.yhi /\ b.ylo < a.yhi

\* C28: in the parametric dual-stack generator the footprint of the slit is
\* disjoint from the footprint of every exported feature of both stacks, the
\* mirrored front stack included.
C28_SlitClearOfFeatures ==
    ParametricExported =>
        \A e \in features : ~FootprintsOverlap(e, SlitRect(layout_config))

---------------------------------------------------------------------------
(* app/main.py: the lookup service, GET /r?u=<uid>&t=<token> *)

\* hmac.new(secret, token, sha256).hexdigest(): different inputs, different
\* digests
HmacHex(secret, token) == <<"hmac-sha256", secret, token>>

\* hashlib.sha256(token).hexdigest()
Sha256Hex(token) == <<"sha256", token>>

Uids == {"U1", "U2"}
Tokens == {"T1", "BAD"}
Secrets == {"S", "S-old"}

\* The token_hash values of a row: "hmac256:<hex>", "sha256:<hex>", and ""
\* as tools/missing.py writes it for a row it creates
TokenHashes ==
    {[scheme |-> "hmac256", hex |-> HmacHex(k, "T1")] : k \in Secrets}
    \cup {[scheme |-> "sha256", hex |-> Sha256Hex("T1")],
          [scheme |-> "", hex |-> <<>>]}

Rows ==
    {[uid |-> u, token_hash |-> th, missing |-> m, owner_name |-> "Ori",
      owner_phone |-> "+972-50", owner_address |-> "Tel Aviv"] :
        u \in Uids, th \in TokenHashes, m \in BOOLEAN}

\* registry.jsonl: no file, or one or two rows
Registries ==
    {<<>>} \cup {<<r>> : r \in Rows}
    \cup {<<r1, r2>> : r1 \in {r \in Rows : r.uid = "U1" /\ r.missing},
                       r2 \in {r \in Rows : r.token_hash.scheme = "hmac256"}}

\* _load_row: the first row of the file with this uid, <<>> for None
_load_row(rows, uid) ==
    IF \E k \in 1..Len(rows) : rows[k].uid = uid
    THEN rows[CHOOSE k \in 1..Len(rows) :
                 rows[k].uid = uid /\ \A j \in 1..(k - 1) : rows[j].uid # uid]
    ELSE <<>>

compare_digest_any(a, b) == TRUE

\* hmac.compare_digest
compare_digest(a, b) == a = b

\* What resolve() hands to the template, or the HTTPException it raises
HttpError(code, detail) ==
    [status |-> code, detail |-> detail, template |-> "", ctx |-> <<>>]

\* app/main.py:74-91, once the token is verified
Render(row) ==
    IF ~row.missing
    THEN [status |-> 200, detail |-> "", template |-> "registered.html", ctx |-> <<>>]
    ELSE [status |-> 200, detail |-> "", template |-> "owner.html",
          ctx |-> [owner_name |-> row.owner_name, owner_phone |-> row.owner_phone,
                   owner_address |-> row.owner_address]]

\* resolve, app/main.py:53-91
resolve(rows, srv, uid, token) ==
    LET row == _load_row(rows, uid)
    IN  IF row = <<>> THEN HttpError(404, "Unknown tag")
        ELSE IF row.token_hash.scheme = "hmac256"
        THEN IF srv.RECOVERY_SECRET = "" THEN HttpError(500, "Server not configured")
             ELSE IF ~compare_digest(HmacHex(srv.RECOVERY_SECRET, token),
                                     row.token_hash.hex)
             THEN HttpError(400, "Invalid token")
             ELSE Render(row)
        ELSE IF row.token_hash.scheme = "sha256" /\ srv.ALLOW_LEGACY
        THEN IF Sha256Hex(token) # row.token_hash.hex
             THEN HttpError(400, "Invalid token")
             ELSE Render(row)
        ELSE HttpError(400, "Invalid token")

AppInit ==
    /\ p = Params
    /\ BuildIdle
    /\ MainIdle
    /\ MeshIdle
    /\ QrIdle
    /\ RevIdle
    /\ LayIdle
    /\ TglIdle
    /\ apppc = "request"
    /\ registry \in Registries
    /\ server \in {[RECOVERY_SECRET |-> k, ALLOW_LEGACY |-> a] :
                      k \in {"", "S"}, a \in BOOLEAN}
    /\ request \in {[u |-> u, t |-> t] : u \in Uids, t \in Tokens}
    /\ response = <<>>

\* One request to /r is answered
Resolve ==
    /\ apppc = "request"
    /\ response' = resolve(registry, server, request.u, request.t)
    /\ apppc' = "responded"
    /\ UNCHANGED <<registry, server, request>>
    /\ UNCHANGED notApp

AppNext == Resolve

SpecApp == AppInit /\ [][AppNext]_vars

Responded == apppc = "responded"

RequestedRow == _load_row(registry, request.u)

\* The presented token verifies against the row's token_hash
TokenVerifies ==
    LET th == RequestedRow.token_hash
    IN  \/ /\ th.scheme = "hmac256"
           /\ server.RECOVERY_SECRET # ""
           /\ th.hex = HmacHex(server.RECOVERY_SECRET, request.t)
        \/ /\ th.scheme = "sha256"
           /\ server.ALLOW_LEGACY
           /\ th.hex = Sha256Hex(request.t)

DisclosesOwner == response.ctx # <<>>

\* The privacy gate proper: owner data only for a missing tag and a verified
\* token; a verified token on a tag that is not missing gets 200 without it
PrivacyGate ==
    /\ DisclosesOwner => (RequestedRow # <<>> /\ RequestedRow.missing /\ TokenVerifies)
    /\ (RequestedRow # <<>> /\ TokenVerifies /\ ~RequestedRow.missing)
          => (response.status = 200 /\ ~DisclosesOwner)
    /\ (RequestedRow # <<>> /\ TokenVerifies /\ RequestedRow.missing)
          => (response.status = 200 /\ DisclosesOwner)
    /\ (RequestedRow # <<>> /\ RequestedRow.token_hash.scheme = "sha256"
        /\ ~server.ALLOW_LEGACY) => response.status = 400

\* C17 as stated: owner data is disclosed only for a missing tag and a token
\* that verifies; a valid token on a tag that is not missing gets 200 without
\* owner data, a wrong token gets 400, and a legacy sha256 row is rejected
\* with 400 by default.
C17_PrivacyGateAndCodes ==
    Responded =>
        /\ PrivacyGate
        /\ (RequestedRow # <<>> /\ ~TokenVerifies) => response.status = 400

\* The server has no secret and the row is an hmac256 row: nothing verifies
NotConfigured ==
    /\ RequestedRow # <<>>
    /\ RequestedRow.token_hash.scheme = "hmac256"
    /\ server.RECOVERY_SECRET = ""

\* C17 amended: as stated, except that a token that does not verify gets 400
\* only when the server can check it; against an hmac256 row on a server
\* without RECOVERY_SECRET every request gets 500, still without owner data.
C17_PrivacyGate ==
    Responded =>
        /\ PrivacyGate
        /\ (RequestedRow # <<>> /\ ~TokenVerifies /\ ~NotConfigured)
              => response.status = 400
        /\ NotConfigured => (response.status = 500 /\ ~DisclosesOwner)

C17_Witness ==
    /\ Responded
    /\ Len(registry) = 2
    /\ RequestedRow # <<>>
    /\ RequestedRow.missing /\ TokenVerifies
    /\ response.status = 200
    /\ response.ctx.owner_name = RequestedRow.owner_name

---------------------------------------------------------------------------
(* layout_validator.py: Element, TagLayout, design_optimal_layout *)

\* Element(name, x, y, width, height, margin): centre and size
Element(name, x, y, width, height, margin) ==
    [name |-> name, x |-> x, y |-> y, width |-> width, height |-> height,
     margin |-> margin]

\* The edges of the margin-expanded rectangle, doubled
left2(e) == 2 * e.x - e.width - 2 * e.margin
right2(e) == 2 * e.x + e.width + 2 * e.margin
top2(e) == 2 * e.y + e.height + 2 * e.margin
bottom2(e) == 2 * e.y - e.height - 2 * e.margin

overlaps_never(a, b) == FALSE

\* Element.overlaps_with
overlaps_with(a, b) ==
    ~(\/ right2(a) <= left2(b)
      \/ left2(a) >= right2(b)
      \/ top2(a) <= bottom2(b)
      \/ bottom2(a) >= top2(b))

\* TagLayout.__init__; the content edges are kept doubled
TagLayout(width, height) ==
    [width |-> width, height |-> height, elements |-> <<>>, margin |-> 400,
     content_left2 |-> -width + 2 * 400,
     content_right2 |-> width - 2 * 400,
     content_top2 |-> height - 2 * 400,
     content_bottom2 |-> -height + 2 * 400,
     hole |-> Element("strap_hole", (-width + 2 * 1200) \div 2,
                      (height - 2 * 1000) \div 2, 600, 600, 300)]

\* The first test of add_element and of validate_layout
OutsideContent(L, e) ==
    \/ left2(e) < L.content_left2
    \/ right2(e) > L.content_right2
    \/ top2(e) > L.content_top2
    \/ bottom2(e) < L.content_bottom2

\* TagLayout.add_element: <<the layout afterwards, the value returned>>
add_element(L, e) ==
    IF OutsideContent(L, e) THEN <<L, FALSE>>
    ELSE IF overlaps_with(e, L.hole) THEN <<L, FALSE>>
    ELSE IF \E k \in 1..Len(L.elements) : overlaps_with(e, L.elements[k])
    THEN <<L, FALSE>>
    ELSE <<[L EXCEPT !.elements = Append(L.elements, e)], TRUE>>

\* TagLayout.validate_layout
validate_layout(L) ==
    /\ \A k \in 1..Len(L.elements) : ~OutsideContent(L, L.elements[k])
    /\ \A i \in 1..Len(L.elements) :
          /\ ~overlaps_with(L.elements[i], L.hole)
          /\ \A j \in (i + 1)..Len(L.elements) :
                ~overlaps_with(L.elements[i], L.elements[j])

MaxCalls == 3

\* Elements a caller hands to add_element
CallerElements ==
    {Element("e", x, y, s[1], s[2], s[3]) :
        x \in {-3050, 0, 2000}, y \in {-1500, 0, 1700},
        s \in {<<1000, 1000, 200>>, <<3000, 1600, 200>>, <<600, 600, 0>>,
               <<7000, 400, 100>>}}

LayInit ==
    /\ p = Params
    /\ BuildIdle
    /\ MainIdle
    /\ MeshIdle
    /\ QrIdle
    /\ RevIdle
    /\ AppIdle
    /\ TglIdle
    /\ laypc \in {"qr", "ready"}
    /\ layout = TagLayout(8500, 5400)
    /\ rets = <<>>
    /\ validated = <<>>

\* A caller adds an element to a TagLayout
AddElement ==
    /\ laypc = "ready"
    /\ Len(rets) < MaxCalls
    /\ \E e \in CallerElements :
          /\ layout' = add_element(layout, e)[1]
          /\ rets' = Append(rets, add_element(layout, e)[2])
    /\ UNCHANGED <<laypc, validated>>
    /\ UNCHANGED notLay

\* layout.validate_layout(), by a caller or as design_optimal_layout's last
\* statement before it returns the layout
ValidateLayout ==
    /\ \/ laypc = "ready" /\ validated = <<>> /\ laypc' = laypc
       \/ laypc = "validate" /\ laypc' = "returned"
    /\ validated' = Append(validated, validate_layout(layout))
    /\ UNCHANGED <<layout, rets>>
    /\ UNCHANGED notLay

\* `if not layout.add_element(first): layout.add_element(second)`
Place(first, second, next) ==
    /\ IF add_element(layout, first)[2]
       THEN /\ layout' = add_element(layout, first)[1]
            /\ rets' = Append(rets, TRUE)
       ELSE /\ layout' = add_element(layout, second)[1]
            /\ rets' = rets \o <<FALSE, add_element(layout, second)[2]>>
    /\ laypc' = next
    /\ UNCHANGED validated
    /\ UNCHANGED notLay

\* qr_x = layout.content_left + qr_size/2 + 2, with qr_size = 35.0
qr_x == (layout.content_left2 + 3500 + 2 * 200) \div 2

\* qr_size once the code is placed: 30.0 if the first candidate was refused
qr_size == IF rets[1] THEN 3500 ELSE 3000

\* layout_validator.py:142-152
PlaceQr ==
    /\ laypc = "qr"
    /\ Place(Element("qr_code", qr_x, 0, 3500, 3500, 200),
             Element("qr_code", qr_x, 0, 3000, 3000, 200), "header")

\* len("FOUND MY LUGGAGE?") * 4.5 * 0.6
header_width == (17 * 450 * 6) \div 10

\* layout_validator.py:154-166
PlaceHeader ==
    /\ laypc = "header"
    /\ Place(Element("header", 0, (layout.content_top2 - 2 * 300) \div 2,
                     header_width, 450, 100),
             Element("header", 0, (layout.content_top2 - 2 * 800) \div 2,
                     header_width, 450, 100), "contact")

\* layout_validator.py:168-179
PlaceContact ==
    /\ laypc = "contact"
    /\ Place(Element("contact_info", (layout.content_right2 - 3000) \div 2, 0,
                     3000, 1600, 200),
             Element("contact_info",
                     qr_x + (qr_size \div 2) + (3000 \div 2) + 400, 0,
                     3000, 1600, 200), "footer")

\* len("SCAN QR OR CALL/TEXT") * 3.8 * 0.6
footer_width == (20 * 380 * 6) \div 10

\* layout_validator.py:181-188
PlaceFooter ==
    /\ laypc = "footer"
    /\ LET e == Element("footer", 0, (layout.content_bottom2 + 2 * 300) \div 2,
                        footer_width, 380, 100)
       IN  /\ layout' = add_element(layout, e)[1]
           /\ rets' = Append(rets, add_element(layout, e)[2])
    /\ laypc' = "validate"
    /\ UNCHANGED validated
    /\ UNCHANGED notLay

LayNext ==
    \/ AddElement
    \/ ValidateLayout
    \/ PlaceQr
    \/ PlaceHeader
    \/ PlaceContact
    \/ PlaceFooter

SpecLayout == LayInit /\ [][LayNext]_vars

\* Two margin-expanded rectangles share interior points
RectsOverlap(a, b) ==
    /\ left2(a) < right2(b)
    /\ left2(b) < right2(a)
    /\ bottom2(a) < top2(b)
    /\ bottom2(b) < top2(a)

InsideContent(e) ==
    /\ -layout.width + 2 * layout.margin <= left2(e)
    /\ right2(e) <= layout.width - 2 * layout.margin
    /\ -layout.height + 2 * layout.margin <= bottom2(e)
    /\ top2(e) <= layout.height - 2 * layout.margin

ElementsDisjointAndInside ==
    \A i \in 1..Len(layout.elements) :
        /\ InsideContent(layout.elements[i])
        /\ ~RectsOverlap(layout.elements[i], layout.hole)
        /\ \A j \in 1..Len(layout.elements) :
              i # j => ~RectsOverlap(layout.elements[i], layout.elements[j])

\* A call that returned False left the element list as it was
RejectedLeavesUnchanged ==
    (Len(rets') > Len(rets) /\ ~rets'[Len(rets')]
     /\ (Len(rets') = Len(rets) + 1 \/ ~rets'[Len(rets') - 1]))
        => layout'.elements = layout.elements

\* C19: after any sequence of add_element calls the elements held are
\* pairwise non-overlapping in their margin-expanded rectangles, none
\* overlaps the strap hole's, each lies inside the content area, a rejected
\* call leaves the list unchanged, and validate_layout returns True.
C19_LayoutInvariant ==
    /\ [](ElementsDisjointAndInside /\ \A k \in 1..Len(validated) : validated[k])
    /\ [][RejectedLeavesUnchanged]_vars

C19_Witness ==
    /\ laypc = "ready"
    /\ Len(layout.elements) = 2
    /\ rets = <<TRUE, FALSE, TRUE>>
    /\ validated = <<TRUE>>

Placed == {layout.elements[k].name : k \in 1..Len(layout.elements)}

\* C20: design_optimal_layout never returns a layout that lacks one of
\* qr_code, header, contact_info and footer.
C20_NoElementOmitted ==
    laypc = "returned" =>
        {"qr_code", "header", "contact_info", "footer"} \subseteq Placed

---------------------------------------------------------------------------
(* tools/missing.py: toggle *)

MaxLines == 2
MaxToggles == 3

\* An audit entry; old is <<>> for {} and <<b>> for {"missing": b}
audit_entry_no_old(value, old) ==
    [action |-> <<"set-missing", value>>, old |-> <<>>, new |-> value]

\* missing.py:31-38 and 52-59
audit_entry(value, old) ==
    [action |-> <<"set-missing", value>>, old |-> old, new |-> value]

\* A line of the file: a JSON object (written as json.dumps writes it,
\* spaced, or in another layout), a blank line, or text that is not JSON
JsonLine(row, spaced) == [kind |-> "json", spaced |-> spaced, row |-> row]

NoRow == [uid |-> "", missing |-> FALSE, audit |-> <<>>]

BlankLine == [kind |-> "blank", spaced |-> FALSE, row |-> NoRow]

NotJsonLine == [kind |-> "text", spaced |-> FALSE, row |-> NoRow]

\* Rows of a registry: one that was never marked, one marked missing by an
\* earlier run
ToggleRows ==
    {[uid |-> u, missing |-> FALSE, audit |-> <<>>] : u \in Uids}
    \cup {[uid |-> u, missing |-> TRUE,
           audit |-> <<audit_entry(TRUE, <<>>)>>] : u \in Uids}

Lines ==
    {JsonLine(r, sp) : r \in ToggleRows, sp \in BOOLEAN}
    \cup {BlankLine, NotJsonLine}

RegistryFiles == UNION {[1..n -> Lines] : n \in 0..MaxLines}

\* missing.py:19-24: blank lines and lines json.loads rejects are skipped
Skipped(line) == line.kind # "json"

\* json.loads of a line that holds an object
json_loads(line) == line.row

\* json.dumps(r) + "\n": the default separators
json_dumps(row) == JsonLine(row, TRUE)

\* missing.py:25-40: the row with the flag set and the audit entry appended
Updated(row, value) ==
    [row EXCEPT !.missing = value,
                !.audit = Append(row.audit, audit_entry(value, <<row.missing>>))]

\* missing.py:44-61: the skeleton of a new row
Skeleton(uid, value) ==
    [uid |-> uid, missing |-> value, audit |-> <<audit_entry(value, <<>>)>>]

\* toggle(path, uid, value): the lines the file holds afterwards
toggle(file, uid, value) ==
    LET kept == SelectSeq(file, LAMBDA l : ~Skipped(l))
        found == \E k \in 1..Len(kept) : json_loads(kept[k]).uid = uid
        rows == [k \in 1..Len(kept) |->
                    IF json_loads(kept[k]).uid = uid
                    THEN Updated(json_loads(kept[k]), value)
                    ELSE json_loads(kept[k])]
        all == IF found THEN rows ELSE Append(rows, Skeleton(uid, value))
    IN  [k \in 1..Len(all) |-> json_dumps(all[k])]

TglInit ==
    /\ p = Params
    /\ BuildIdle
    /\ MainIdle
    /\ MeshIdle
    /\ QrIdle
    /\ RevIdle
    /\ AppIdle
    /\ LayIdle
    /\ tglpc = "ready"
    /\ jsonl0 \in RegistryFiles
    /\ jsonl = jsonl0
    /\ toggled = <<>>

\* One run of tools/missing.py --uid u --set true|false
Toggle ==
    /\ tglpc = "ready"
    /\ Len(toggled) < MaxToggles
    /\ \E u \in Uids, v \in BOOLEAN :
          /\ jsonl' = toggle(jsonl, u, v)
          /\ toggled' = Append(toggled, [uid |-> u, value |-> v])
    /\ UNCHANGED <<tglpc, jsonl0>>
    /\ UNCHANGED notTgl

TglNext == Toggle

SpecToggle == TglInit /\ [][TglNext]_vars

\* The line holds a row of this uid
BelongsTo(line, uid) == line.kind = "json" /\ line.row.uid = uid

OtherLines(file, uid) == SelectSeq(file, LAMBDA l : ~BelongsTo(l, uid))

OwnLines(file, uid) == SelectSeq(file, LAMBDA l : BelongsTo(l, uid))

\* A toggle call leaves the lines of other uids, unparsable ones included,
\* as they were and in their order; it changes the rows of its uid or, when
\* there is none, appends one row
TogglePreservesOthers ==
    Len(toggled') > Len(toggled) =>
        LET u == toggled'[Len(toggled')].uid
        IN  /\ OtherLines(jsonl', u) = OtherLines(jsonl, u)
            /\ IF OwnLines(jsonl, u) = <<>>
               THEN /\ Len(jsonl') = Len(jsonl) + 1
                    /\ BelongsTo(jsonl'[Len(jsonl')], u)
               ELSE /\ Len(jsonl') = Len(jsonl)
                    /\ \A k \in 1..Len(jsonl) :
                          BelongsTo(jsonl'[k], u) <=> BelongsTo(jsonl[k], u)

\* C29: toggle leaves every line that does not belong to its uid unchanged
\* and in its original relative order, lines that are not JSON included;
\* only the rows of that uid change, or one new row is appended.
C29_OtherLinesUnchanged == [][TogglePreservesOthers]_vars

\* Every line is a row and no uid has two rows
WellFormed(file) ==
    /\ \A k \in 1..Len(file) : file[k].kind = "json"
    /\ \A i, j \in 1..Len(file) : file[i].row.uid = file[j].row.uid => i = j

CallsFor(uid) == SelectSeq(toggled, LAMBDA c : c.uid = uid)

\* The row of a uid that has one
RowOf(file, uid) == OwnLines(file, uid)[1].row

\* The audit entries the calls for this uid should have left, after those
\* the row had
AuditTrail(uid) ==
    LET cs == CallsFor(uid)
        had == OwnLines(jsonl0, uid) # <<>>
        before == IF had THEN RowOf(jsonl0, uid).audit ELSE <<>>
        old(k) == IF k > 1 THEN <<cs[k - 1].value>>
                  ELSE IF had THEN <<RowOf(jsonl0, uid).missing>>
                  ELSE <<>>
    IN  before \o [k \in 1..Len(cs) |->
                      [action |-> <<"set-missing", cs[k].value>>,
                       old |-> old(k), new |-> cs[k].value]]

\* C30: after any sequence of toggle calls for one uid on a well-formed
\* registry, the uid's row has missing equal to the last call's value and
\* its audit list has gained one entry per call, in call order, each with
\* the value before the call as old.missing (empty for the call that made
\* the row) and the value set as new.missing.
C30_AuditTrail ==
    WellFormed(jsonl0) =>
        \A u \in Uids :
            CallsFor(u) # <<>> =>
                /\ Len(OwnLines(jsonl, u)) = 1
                /\ RowOf(jsonl, u).missing = CallsFor(u)[Len(CallsFor(u))].value
                /\ RowOf(jsonl, u).audit = AuditTrail(u)

C30_Witness ==
    /\ tglpc = "ready"
    /\ WellFormed(jsonl0)
    /\ Len(jsonl0) = 1
    /\ jsonl0[1].row.uid = "U2"
    /\ toggled = <<[uid |-> "U1", value |-> TRUE],
                   [uid |-> "U2", value |-> TRUE],
                   [uid |-> "U1", value |-> FALSE]>>
    /\ ~RowOf(jsonl, "U1").missing
    /\ Len(RowOf(jsonl, "U1").audit) = 2

====
